---- MODULE Spec2Model ----
(***************************************************************************)
(* Hokm backend: the room registry, the game rules engine and the          *)
(* connection lifecycle (handlers/websocket.go, game/game.go,              *)
(* utils/helpers.go), as a state machine.                                  *)
(*                                                                         *)
(* Player objects live in a heap (objs); rooms, the game and the sessions  *)
(* hold references into it, as the Go code holds *Player pointers.         *)
(* A handler that takes no lock around its body (processMessage) is split  *)
(* at its room lookup; registerPlayer is split where it releases the       *)
(* registry lock between its lookups and its insertion.                    *)
(***************************************************************************)
EXTENDS Integers, Sequences, FiniteSets, TLC

VARIABLES
    Rooms,          \* game.Manager.Rooms: sequence of Room records (room id = position)
    objs,           \* heap of *game.Player objects (reference = position)
    conns,          \* one session per accepted connection (HandleWebSocket)
    timers,         \* player references with a pending ReconnectTimeout goroutine
    playerCounter,  \* handlers.playerCounter
    mu,             \* game.Manager.Mu: "free", or "stuck" once a holder blocks on itself
    crashed,        \* an unrecovered panic in a background goroutine ended the process
    last            \* outcome of the most recent processMessage body

vars == <<Rooms, objs, conns, timers, playerCounter, mu, crashed, last>>

---------------------------------------------------------------------------
(* Bounds of the model *)

\* connections accepted over the lifetime of the process
MaxConns == 6
\* outcomes of rand.Shuffle that are explored
NumShuffles == 2
\* cards of each suit of its hand that a client offers in play_card
OfferPerSuit == 1
\* rounds after which the clients stop sending messages
MaxRound == 1
\* distinct transport origins (RemoteAddr) of incoming connections
NumOrigins == 1
\* sessions that are inside processMessage at the same time
MaxInFlight == 2
\* sessions of the seated players whose clients leave the game
MaxLeavers == 1
\* sessions of the seated players whose connections fail
MaxDroppers == 1
\* outcomes of rand.Shuffle that are explored for the lottery of the trump player
NumLotteryShuffles == 13

---------------------------------------------------------------------------
(* Program constants *)

\* a room is full, and the game starts, at 4 players
RoomSize == 4
\* trick-tally at which a round ends
RoundTarget == 2
\* round-tally at which the match ends
MatchTarget == 7

Teams == {"team1", "team2"}
validSuits == <<"hearts", "diamonds", "clubs", "spades">>
validRanks == <<"2", "3", "4", "5", "6", "7", "8", "9", "10", "J", "Q", "K", "A">>

Range(s) == {s[i] : i \in DOMAIN s}

isValidSuit(suit) == suit \in Range(validSuits)
isValidRank(rank) == rank \in Range(validRanks)

\* rankValues[rank]; 0 for a rank that is not in the map
RankValue(rank) ==
    IF \E i \in DOMAIN validRanks : validRanks[i] = rank
    THEN (CHOOSE i \in DOMAIN validRanks : validRanks[i] = rank) + 1
    ELSE 0

isValidValue(rank, value) == isValidRank(rank) /\ value = RankValue(rank)

\* utils.NewDeck: suit by suit, rank by rank
NewDeck ==
    [i \in 1..(Len(validSuits) * Len(validRanks)) |->
        LET s == validSuits[((i - 1) \div Len(validRanks)) + 1]
            r == validRanks[((i - 1) % Len(validRanks)) + 1]
        IN  [Suit |-> s, Rank |-> r, Value |-> RankValue(r)]]

\* The explored outcomes of rand.Shuffle: permutation k maps position i to
\* position (step * i + offset) mod len, step coprime to the deck length.
ShuffleStep == <<5, 3, 7, 1, 9, 11, 15, 17, 19, 21, 23, 25>>
ShuffleOffset == <<7, 45, 0, 20, 31, 1, 3, 11, 29, 40, 51, 16>>
\* One more outcome, which applied twice to the deck of NewDeck leaves the four
\* Aces as its last four cards: the cycles (49 1 13), (50 2 26), (51 3 39) of the
\* positions of a 52-card deck
LateAcePosition(i, n) ==
    IF n # 52 THEN i
    ELSE IF i \in 49..51 THEN i - 48
    ELSE IF i \in 1..3 THEN 13 * i
    ELSE IF i \in {13, 26, 39} THEN 48 + (i \div 13)
    ELSE i
ShuffleDeck(deck, k) ==
    LET j == ((k - 1) % (Len(ShuffleStep) + 1)) + 1
    IN  [i \in 1..Len(deck) |->
            IF j > Len(ShuffleStep) THEN deck[LateAcePosition(i, Len(deck))]
            ELSE deck[((ShuffleStep[j] * (i - 1) + ShuffleOffset[j]) % Len(deck)) + 1]]

Take(s, n) == SubSeq(s, 1, n)
Prefix(s, n) == SubSeq(s, 1, IF n < Len(s) THEN n ELSE Len(s))
Drop(s, n) == SubSeq(s, n + 1, Len(s))
RemoveAt(s, i) == SubSeq(s, 1, i - 1) \o SubSeq(s, i + 1, Len(s))

getOppositeTeam(team) == IF team = "team1" THEN "team2" ELSE "team1"

\* determineTeam with the two teams taken for each other
determineTeamSwapped(playerCount) == IF playerCount % 2 = 0 THEN "team1" ELSE "team2"

determineTeam(playerCount) == IF playerCount % 2 = 0 THEN "team2" ELSE "team1"

---------------------------------------------------------------------------
(* game/game.go *)

\* a nil *Player
Nil == 0

NoScores == [team1 |-> 0, team2 |-> 0]

NewGame ==
    [Deck |-> <<>>, TrumpSuit |-> "", Players |-> <<>>, CurrentTrick |-> <<>>,
     TrickPlayOrder |-> <<>>, Scores |-> NoScores, RoundScores |-> NoScores,
     CurrentPlayerIndex |-> 0, TrumpPlayer |-> Nil, CurrentRound |-> 1,
     IsGameOver |-> FALSE]

\* SavedPlayers: the map from player ID to SavedPlayerData, as the set of its values
NewRoom == [Players |-> <<>>, Game |-> NewGame, SavedPlayers |-> {}]

SameCard(c, card) == c.Suit = card.Suit /\ c.Rank = card.Rank

\* position (0-based, as in the code) of the first player of the list with that ID; -1 if none
IndexOfID(h, players, id) ==
    IF \E i \in DOMAIN players : h[players[i]].ID = id
    THEN (CHOOSE i \in DOMAIN players :
            /\ h[players[i]].ID = id
            /\ \A j \in 1..(i - 1) : h[players[j]].ID # id) - 1
    ELSE -1

indexOfPlayer(h, players, player) == IndexOfID(h, players, h[player].ID)

\* g.Players[g.CurrentPlayerIndex] is an index out of range: the handler panics
TurnOutOfRange(g) ==
    g.CurrentPlayerIndex < 0 \/ g.CurrentPlayerIndex >= Len(g.Players)

NextTurn(g) ==
    [g EXCEPT !.CurrentPlayerIndex = (g.CurrentPlayerIndex + 1) % Len(g.Players)]

\* ValidateCardPlay without the follow-suit loop
ValidateCardPlayNoFollow(g, h, playerID, card) ==
    LET i == IndexOfID(h, g.Players, playerID)
    IN  IF i < 0 THEN FALSE
        ELSE \E n \in DOMAIN h[g.Players[i + 1]].Hand :
                SameCard(h[g.Players[i + 1]].Hand[n], card)

ValidateCardPlay(g, h, playerID, card) ==
    LET i == IndexOfID(h, g.Players, playerID)
    IN  IF i < 0 THEN FALSE
        ELSE LET hand == h[g.Players[i + 1]].Hand
             IN  /\ \E n \in DOMAIN hand : SameCard(hand[n], card)
                 /\ \/ Len(g.CurrentTrick) = 0
                    \/ card.Suit = g.CurrentTrick[1].Suit
                    \/ \A n \in DOMAIN hand : hand[n].Suit # g.CurrentTrick[1].Suit

\* the error of Game.PlayCard: "" when the card is played
PlayCardError(g, h, playerID, card) ==
    IF Len(g.Players) = 0 THEN "no players in the game"
    ELSE IF h[g.Players[g.CurrentPlayerIndex + 1]].ID # playerID THEN "it's not your turn"
    ELSE IF ~ValidateCardPlay(g, h, playerID, card) THEN "invalid card play"
    ELSE ""

\* PlayCard recording the player at the turn index after NextTurn
PlayCardOrderAfterTurn(g, card) ==
    LET g1 == NextTurn([g EXCEPT !.CurrentTrick = Append(@, card)])
    IN  [g1 EXCEPT !.TrickPlayOrder = Append(@, g.Players[g1.CurrentPlayerIndex + 1])]

\* the game after a PlayCard that returned nil
PlayCard(g, card) ==
    NextTurn([g EXCEPT !.TrickPlayOrder = Append(@, g.Players[g.CurrentPlayerIndex + 1]),
                       !.CurrentTrick = Append(@, card)])

\* the loop of DetermineTrickWinner from position i on, w the winning position so far
RECURSIVE WinnerIndex(_, _, _, _)
WinnerIndex(trick, trump, i, w) ==
    IF i > Len(trick) THEN w
    ELSE LET card == trick[i]
             win == trick[w]
             take == IF card.Suit = trump
                     THEN win.Suit # trump \/ card.Value > win.Value
                     ELSE /\ card.Suit = trick[1].Suit
                          /\ win.Suit # trump
                          /\ card.Value > win.Value
         IN  WinnerIndex(trick, trump, i + 1, IF take THEN i ELSE w)

\* DetermineTrickWinner reading the winner from the players slice
DetermineTrickWinnerFromPlayers(g, h) ==
    IF Len(g.CurrentTrick) = 0 \/ Len(g.TrickPlayOrder) # Len(g.CurrentTrick) THEN 0
    ELSE h[g.Players[WinnerIndex(g.CurrentTrick, g.TrumpSuit, 1, 1)]].ID

\* the ID of the winner; 0 stands for the empty string
DetermineTrickWinner(g, h) ==
    IF Len(g.CurrentTrick) = 0 \/ Len(g.TrickPlayOrder) # Len(g.CurrentTrick) THEN 0
    ELSE h[g.TrickPlayOrder[WinnerIndex(g.CurrentTrick, g.TrumpSuit, 1, 1)]].ID

ResetTrick(g) == [g EXCEPT !.CurrentTrick = <<>>, !.TrickPlayOrder = <<>>]

\* UpdateScores crediting both teams
UpdateScoresBoth(g, team, tricksWon) ==
    [g EXCEPT !.Scores = [t \in Teams |-> @[t] + tricksWon]]

UpdateScores(g, team, tricksWon) == [g EXCEPT !.Scores[team] = @ + tricksWon]

---------------------------------------------------------------------------
(* utils/helpers.go: DealCards *)

\* position of the first Ace of a deck (every explored deck holds the four Aces)
FirstAce(deck) ==
    CHOOSE i \in DOMAIN deck :
        /\ deck[i].Rank = "A"
        /\ \A j \in 1..(i - 1) : deck[j].Rank # "A"

\* the cards of deck[1..upto] that the round-robin deal gives to position pos of n players
RECURSIVE LotteryCards(_, _, _, _, _)
LotteryCards(deck, upto, n, pos, i) ==
    IF i > upto THEN <<>>
    ELSE (IF (i - 1) % n = pos - 1 THEN <<deck[i]>> ELSE <<>>)
         \o LotteryCards(deck, upto, n, pos, i + 1)

\* the loop of DealCards that deals to the player after the one whose turn it is
RECURSIVE LotteryLoopFromNextSeat(_, _, _, _)
LotteryLoopFromNextSeat(deck, players, h, i) ==
    IF Len(deck) = 0 THEN [h |-> h, deck |-> deck, tp |-> Nil, err |-> TRUE]
    ELSE LET player == players[((i + 1) % Len(players)) + 1]
             card == deck[1]
             h1 == [h EXCEPT ![player].Hand = Append(@, card)]
         IN  IF card.Rank = "A"
             THEN [h |-> [h1 EXCEPT ![player].Hand = <<>>], deck |-> Tail(deck),
                   tp |-> player, err |-> FALSE]
             ELSE LotteryLoopFromNextSeat(Tail(deck), players, h1, i + 1)

\* the loop "for i := 0; ; i++" of DealCards from iteration i on: one card of the
\* deck to players[i % len(players)] until an Ace is dealt; its receiver is the trump
\* player and loses the cards it was dealt. err: the deck ran out of cards
RECURSIVE LotteryLoop(_, _, _, _)
LotteryLoop(deck, players, h, i) ==
    IF Len(deck) = 0 THEN [h |-> h, deck |-> deck, tp |-> Nil, err |-> TRUE]
    ELSE LET player == players[(i % Len(players)) + 1]
             card == deck[1]
             h1 == [h EXCEPT ![player].Hand = Append(@, card)]
         IN  IF card.Rank = "A"
             THEN [h |-> [h1 EXCEPT ![player].Hand = <<>>], deck |-> Tail(deck),
                   tp |-> player, err |-> FALSE]
             ELSE LotteryLoop(Tail(deck), players, h1, i + 1)

\* DealCards(deck, players, isInitialGame, trumpPlayer): kShuffle and kDeal are
\* the outcomes of its two calls of ShuffleDeck. The result is the heap, the
\* deck and the trump player it returns; err: it returned an error and nils.
DealCards(deck, players, h, isInitialGame, trumpPlayer, kShuffle, kDeal) ==
    LET shuffled == ShuffleDeck(deck, kShuffle)
        lot == IF isInitialGame THEN LotteryLoop(shuffled, players, h, 0)
               ELSE [h |-> h, deck |-> shuffled, tp |-> trumpPlayer, err |-> FALSE]
        fresh == ShuffleDeck(NewDeck, kDeal)
    IN  IF lot.err
        THEN [h |-> lot.h, deck |-> <<>>, tp |-> Nil, err |-> TRUE]
        ELSE [h |-> [lot.h EXCEPT ![lot.tp].Hand = @ \o Take(fresh, 5)],
              deck |-> Drop(fresh, 5),
              tp |-> lot.tp,
              err |-> FALSE]

---------------------------------------------------------------------------
(* handlers/websocket.go: the game handlers *)

\* initializeGame(room): kInit is the outcome of its shuffle and of the shuffle of
\* DealCards that follows it (together one random order of the lottery deck), kDeal
\* the outcome of the shuffle of the fresh deck
initializeGame(rm, h, kInit, kDeal) ==
    LET d == DealCards(ShuffleDeck(NewDeck, kInit), rm.Players, h, TRUE, Nil,
                       kInit, kDeal)
    IN  IF d.err
        THEN [room |-> [rm EXCEPT !.Players = <<>>, !.Game.Deck = <<>>,
                                  !.Game.TrumpPlayer = Nil],
              h |-> d.h]
        ELSE [room |-> [rm EXCEPT !.Game.Deck = d.deck, !.Game.TrumpPlayer = d.tp],
              h |-> d.h]

ClearHands(h, players) ==
    SubSeq([o \in DOMAIN h |->
              IF o \in Range(players) THEN [h[o] EXCEPT !.Hand = <<>>] ELSE h[o]],
           1, Len(h))

\* restartGameForNextRound that starts the round with the paused flag cleared
restartGameForNextRoundResuming(rm, h, roundWinner, kDeal) ==
    LET g == rm.Game
        h1 == ClearHands(h, rm.Players)
        trumpTeam == h1[g.TrumpPlayer].Team
        cur == indexOfPlayer(h1, rm.Players, g.TrumpPlayer)
        tp == IF roundWinner = getOppositeTeam(trumpTeam)
              THEN rm.Players[((cur + 1) % Len(rm.Players)) + 1]
              ELSE g.TrumpPlayer
        d == DealCards(ShuffleDeck(NewDeck, kDeal), rm.Players, h1, FALSE, tp, kDeal, kDeal)
        idx == indexOfPlayer(d.h, rm.Players, d.tp)
    IN  [room |-> [rm EXCEPT !.Game =
                     [g EXCEPT !.CurrentRound = @ + 1, !.Scores = NoScores,
                               !.Deck = d.deck, !.TrumpPlayer = d.tp,
                               !.CurrentPlayerIndex = idx, !.IsGameOver = FALSE]],
         h |-> d.h,
         panic |-> idx < 0]

\* restartGameForNextRound(room, roundWinner); panic: broadcastTurnUpdate indexes
\* Game.Players with -1 when the trump player is not among room.Players
restartGameForNextRound(rm, h, roundWinner, kDeal) ==
    LET g == rm.Game
        h1 == ClearHands(h, rm.Players)
        trumpTeam == h1[g.TrumpPlayer].Team
        cur == indexOfPlayer(h1, rm.Players, g.TrumpPlayer)
        tp == IF roundWinner = getOppositeTeam(trumpTeam)
              THEN rm.Players[((cur + 1) % Len(rm.Players)) + 1]
              ELSE g.TrumpPlayer
        d == DealCards(ShuffleDeck(NewDeck, kDeal), rm.Players, h1, FALSE, tp, kDeal, kDeal)
        idx == indexOfPlayer(d.h, rm.Players, d.tp)
    IN  [room |-> [rm EXCEPT !.Game =
                     [g EXCEPT !.CurrentRound = @ + 1, !.Scores = NoScores,
                               !.Deck = d.deck, !.TrumpPlayer = d.tp,
                               !.CurrentPlayerIndex = idx]],
         h |-> d.h,
         panic |-> idx < 0]

\* the team of the first player of room.Players with that ID; "" if none
TeamOfID(h, players, id) ==
    LET i == IndexOfID(h, players, id)
    IN  IF i < 0 THEN "" ELSE h[players[i + 1]].Team

\* the switch with the two sweeps taken for each other
RoundPointsSwapped(roundWinner, trumpTeam, losingScore) ==
    IF losingScore = 0 /\ roundWinner = trumpTeam THEN 3
    ELSE IF losingScore = 0 /\ roundWinner = getOppositeTeam(trumpTeam) THEN 2
    ELSE 1

\* round points of the "Hokm rules" switch
RoundPoints(roundWinner, trumpTeam, losingScore) ==
    IF losingScore = 0 /\ roundWinner = trumpTeam THEN 2
    ELSE IF losingScore = 0 /\ roundWinner = getOppositeTeam(trumpTeam) THEN 3
    ELSE 1

RemoveCard(hand, card) ==
    IF \E n \in DOMAIN hand : SameCard(hand[n], card)
    THEN RemoveAt(hand, CHOOSE n \in DOMAIN hand :
                          /\ SameCard(hand[n], card)
                          /\ \A m \in 1..(n - 1) : ~SameCard(hand[m], card))
    ELSE hand

\* what a processMessage body did: out is "accepted" or "rejected" (the action was
\* applied or refused), error the line it logged when it refused, trick and winner
\* the trick it resolved and the ID DetermineTrickWinner returned, roundWinner and
\* points the round result, gameOver whether it ended the match, panic whether the
\* handler ended in a runtime panic
NoResult ==
    [out |-> "", error |-> "", trick |-> <<>>, winner |-> 0, roundWinner |-> "",
     points |-> 0, gameOver |-> FALSE, panic |-> FALSE]
Rejected(error) == [NoResult EXCEPT !.out = "rejected", !.error = error]

\* processMessage, case "play_card", after PlayCard returned nil and the card left
\* player.Hand: the trick is complete (len(CurrentTrick) == len(room.Players))
ResolveTrick(rm, h, kDeal) ==
    LET g == rm.Game
        winnerID == DetermineTrickWinner(g, h)
        winningTeam == TeamOfID(h, rm.Players, winnerID)
        g1 == UpdateScores(g, winningTeam, 1)
        roundOver == g1.Scores["team1"] >= RoundTarget \/ g1.Scores["team2"] >= RoundTarget
        trumpTeam == h[g1.TrumpPlayer].Team
        roundWinner == IF g1.Scores["team1"] >= RoundTarget THEN "team1" ELSE "team2"
        losingScore == g1.Scores[getOppositeTeam(roundWinner)]
        roundPoints == RoundPoints(roundWinner, trumpTeam, losingScore)
        g2 == [g1 EXCEPT !.RoundScores[roundWinner] = @ + roundPoints]
        matchOver == g2.RoundScores["team1"] >= MatchTarget \/ g2.RoundScores["team2"] >= MatchTarget
        restart == restartGameForNextRound([rm EXCEPT !.Game = g2], h, roundWinner, kDeal)
        res == [NoResult EXCEPT !.out = "accepted", !.trick = g.CurrentTrick,
                                !.winner = winnerID]
    IN  IF winningTeam = ""
        THEN [room |-> rm, h |-> h, broadcast |-> FALSE, res |-> res]
        ELSE IF ~roundOver
        THEN [room |-> [rm EXCEPT !.Game =
                          ResetTrick([g1 EXCEPT !.CurrentPlayerIndex =
                                        IndexOfID(h, rm.Players, winnerID)])],
              h |-> h, broadcast |-> TRUE, res |-> res]
        ELSE IF matchOver
        THEN [room |-> [rm EXCEPT !.Game = [g2 EXCEPT !.IsGameOver = TRUE]],
              h |-> h, broadcast |-> FALSE,
              res |-> [res EXCEPT !.roundWinner = roundWinner, !.points = roundPoints,
                                  !.gameOver = TRUE]]
        ELSE [room |-> IF restart.panic THEN restart.room
                       ELSE [restart.room EXCEPT !.Game = ResetTrick(@)],
              h |-> restart.h, broadcast |-> FALSE,
              res |-> [res EXCEPT !.roundWinner = roundWinner, !.points = roundPoints,
                                  !.panic = restart.panic]]

\* a play_card payload: shape is the JSON type of msg.Data, ValueHalves the JSON
\* number "Value" counted in halves (int(value) truncates it)
CardMsg(suit, rank, halves) ==
    [action |-> "play_card", shape |-> "map", Suit |-> suit, Rank |-> rank,
     ValueHalves |-> halves]
TrumpMsg(suit) ==
    [action |-> "choose_trump", shape |-> "string", Suit |-> suit, Rank |-> "",
     ValueHalves |-> 0]
LeaveMsg ==
    [action |-> "leave_game", shape |-> "none", Suit |-> "", Rank |-> "", ValueHalves |-> 0]
\* no message read
NoMsg == [action |-> "", shape |-> "none", Suit |-> "", Rank |-> "", ValueHalves |-> 0]

\* the line that the validation of case "play_card" logs; "" if the payload passes
PayloadError(m) ==
    IF m.shape # "map" THEN "Invalid card data"
    ELSE IF ~isValidSuit(m.Suit) THEN "Invalid suit"
    ELSE IF ~isValidRank(m.Rank) THEN "Invalid rank"
    ELSE IF ~isValidValue(m.Rank, m.ValueHalves \div 2) THEN "Invalid value for rank"
    ELSE ""
\* the card it builds: intValue := int(value)
PayloadCard(m) == [Suit |-> m.Suit, Rank |-> m.Rank, Value |-> m.ValueHalves \div 2]

\* the early return with the card already taken from the hand
RefusedAfterRemoval(rm, h, o, card, error) ==
    [room |-> rm, h |-> [h EXCEPT ![o].Hand = RemoveCard(@, card)], broadcast |-> FALSE,
     res |-> Rejected(error)]

\* case "play_card": Game.PlayCard returned an error, the handler logs it and returns
Refused(rm, h, o, card, error) ==
    [room |-> rm, h |-> h, broadcast |-> FALSE, res |-> Rejected(error)]

\* processMessage, case "play_card", for the session whose player object is o.
\* broadcast: the handler goes on to broadcastGameUpdate, which takes the read lock.
PlayCardBody(rm, h, o, m, kDeal) ==
    LET g == rm.Game
        card == PayloadCard(m)
        g1 == PlayCard(g, card)
        h1 == [h EXCEPT ![o].Hand = RemoveCard(@, card)]
        rm1 == [rm EXCEPT !.Game = g1]
        same == [room |-> rm, h |-> h, broadcast |-> FALSE, res |-> NoResult]
    IN  IF PayloadError(m) # ""
        THEN [same EXCEPT !.res = Rejected(PayloadError(m))]
        ELSE IF Len(g.Players) > 0 /\ TurnOutOfRange(g)
        THEN [same EXCEPT !.res = [Rejected("index out of range") EXCEPT !.panic = TRUE]]
        ELSE IF PlayCardError(g, h, h[o].ID, card) # ""
        THEN Refused(rm, h, o, card, PlayCardError(g, h, h[o].ID, card))
        ELSE IF Len(g1.CurrentTrick) < Len(rm.Players)
        THEN [room |-> rm1, h |-> h1, broadcast |-> TRUE,
              res |-> [NoResult EXCEPT !.out = "accepted"]]
        ELSE IF Len(g1.CurrentTrick) = Len(rm.Players)
        THEN ResolveTrick(rm1, h1, kDeal)
        ELSE [room |-> rm1, h |-> h1, broadcast |-> FALSE,
              res |-> [NoResult EXCEPT !.out = "accepted"]]

\* one dealing loop of case "choose_trump": n cards from the deck to each player of
\* the list from position i on, skipping the players whose ID is skipID (0: nobody).
\* panic: room.Game.Deck[n:] with fewer than n cards left (slice bounds out of range)
RECURSIVE DealBatch(_, _, _, _, _, _)
DealBatch(players, h, deck, n, skipID, i) ==
    IF i > Len(players) THEN [h |-> h, deck |-> deck, panic |-> FALSE]
    ELSE IF h[players[i]].ID = skipID THEN DealBatch(players, h, deck, n, skipID, i + 1)
    ELSE IF Len(deck) < n THEN [h |-> h, deck |-> deck, panic |-> TRUE]
    ELSE DealBatch(players, [h EXCEPT ![players[i]].Hand = @ \o Take(deck, n)],
                   Drop(deck, n), n, skipID, i + 1)

\* case "choose_trump" up to its first sleep without the comparison of player.ID
\* with room.Game.TrumpPlayer.ID: any seat of the room chooses the trump suit
ChooseTrumpBodyAnySeat(rm, h, o, m) ==
    LET g == rm.Game
        same == [room |-> rm, h |-> h, res |-> NoResult]
        tpID == h[g.TrumpPlayer].ID
        h1 == SubSeq([x \in DOMAIN h |->
                        IF x \in Range(rm.Players) /\ h[x].ID # tpID
                        THEN [h[x] EXCEPT !.Hand = <<>>] ELSE h[x]], 1, Len(h))
        d == DealBatch(rm.Players, h1, g.Deck, 5, tpID, 1)
    IN  IF m.shape # "string"
        THEN [same EXCEPT !.res = Rejected("Invalid trump suit data")]
        ELSE IF g.TrumpPlayer = Nil
        THEN [same EXCEPT !.res = [Rejected("nil pointer dereference") EXCEPT !.panic = TRUE]]
        ELSE [room |-> [rm EXCEPT !.Game.TrumpSuit = m.Suit, !.Game.Deck = d.deck],
              h |-> d.h,
              res |-> [NoResult EXCEPT !.out = "accepted", !.panic = d.panic]]

\* case "choose_trump" up to its first time.Sleep: the checks, the trump suit, the
\* cleared hands and the batch of 5 cards to the players other than the trump player
ChooseTrumpBody(rm, h, o, m) ==
    LET g == rm.Game
        same == [room |-> rm, h |-> h, res |-> NoResult]
        tpID == h[g.TrumpPlayer].ID
        h1 == SubSeq([x \in DOMAIN h |->
                        IF x \in Range(rm.Players) /\ h[x].ID # tpID
                        THEN [h[x] EXCEPT !.Hand = <<>>] ELSE h[x]], 1, Len(h))
        d == DealBatch(rm.Players, h1, g.Deck, 5, tpID, 1)
    IN  IF m.shape # "string"
        THEN [same EXCEPT !.res = Rejected("Invalid trump suit data")]
        ELSE IF g.TrumpPlayer = Nil
        THEN [same EXCEPT !.res = [Rejected("nil pointer dereference") EXCEPT !.panic = TRUE]]
        ELSE IF h[o].ID # tpID
        THEN [same EXCEPT !.res = Rejected("Only the trump player can choose the trump suit")]
        ELSE [room |-> [rm EXCEPT !.Game.TrumpSuit = m.Suit, !.Game.Deck = d.deck],
              h |-> d.h,
              res |-> [NoResult EXCEPT !.out = "accepted", !.panic = d.panic]]

\* case "choose_trump" between its two sleeps: 4 cards to every player of the room
DealSecondBatch(rm, h) ==
    LET d == DealBatch(rm.Players, h, rm.Game.Deck, 4, 0, 1)
    IN  [room |-> [rm EXCEPT !.Game.Deck = d.deck], h |-> d.h, panic |-> d.panic]

\* case "choose_trump" after its second sleep: 4 more cards to every player; then
\* broadcastGameUpdate (read lock), the turn pointer, broadcastTurnUpdate.
\* locked: the registry lock can be taken
DealThirdBatch(rm, h, locked) ==
    LET d == DealBatch(rm.Players, h, rm.Game.Deck, 4, 0, 1)
        idx == indexOfPlayer(d.h, rm.Players, rm.Game.TrumpPlayer)
        rm1 == [rm EXCEPT !.Game.Deck = d.deck]
    IN  IF d.panic \/ ~locked
        THEN [room |-> rm1, h |-> d.h, panic |-> d.panic]
        ELSE [room |-> [rm1 EXCEPT !.Game.CurrentPlayerIndex = idx], h |-> d.h,
              panic |-> idx < 0]

\* handlePlayerLeave(player, room)
\* handlePlayerLeave that also passes the turn on
handlePlayerLeavePassingTurn(rm, r, h, o) ==
    LET data == [PlayerID |-> h[o].ID, Hand |-> h[o].Hand, Team |-> h[o].Team,
                 Index |-> h[o].Index, IsLeaving |-> TRUE, RoomID |-> r]
        i == IndexOfID(h, rm.Players, h[o].ID)
    IN  [rm EXCEPT !.SavedPlayers = {sp \in @ : sp.PlayerID # h[o].ID} \cup {data},
                   !.Players = IF i < 0 THEN @ ELSE RemoveAt(@, i + 1),
                   !.Game = [NextTurn(@) EXCEPT !.IsGameOver = TRUE]]

handlePlayerLeave(rm, r, h, o) ==
    LET data == [PlayerID |-> h[o].ID, Hand |-> h[o].Hand, Team |-> h[o].Team,
                 Index |-> h[o].Index, IsLeaving |-> TRUE, RoomID |-> r]
        i == IndexOfID(h, rm.Players, h[o].ID)
    IN  [rm EXCEPT !.SavedPlayers = {sp \in @ : sp.PlayerID # h[o].ID} \cup {data},
                   !.Players = IF i < 0 THEN @ ELSE RemoveAt(@, i + 1),
                   !.Game.IsGameOver = TRUE]

---------------------------------------------------------------------------
(* State *)

NoSaved ==
    [PlayerID |-> 0, Hand |-> <<>>, Team |-> "", Index |-> 0, IsLeaving |-> FALSE,
     RoomID |-> 0]

\* a session of HandleWebSocket. pc:
\*   "lookup"    in registerPlayer, before findReplacementSpot
\*   "replace"   findReplacementSpot returned (room, saved); before handleReplacement
\*   "existing"  before findExistingPlayer
\*   "reconnect" findExistingPlayer returned player; before handleReconnectingPlayer
\*   "seat"      before the locked part of registerPlayer that seats a new player
\*   "idle"      in the read loop, waiting in conn.ReadJSON
\*   "checked"   in processMessage with the message msg that conn.ReadJSON returned,
\*               past findPlayerRoom and the pause check, before the switch
\*   "deal2", "deal3"  in case "choose_trump", asleep before the second, third batch
\*   "resolve"   in case "play_card", the card played completed the trick; before
\*               DetermineTrickWinner
\*   "blocked"   waiting for the registry lock, which is never released
\*   "closed"    the handler returned; "panicked": it ended in a recovered panic
NewSession(origin) ==
    [origin |-> origin, pc |-> "lookup", player |-> Nil, room |-> 0, saved |-> NoSaved,
     msg |-> NoMsg]

\* the message whose handler ran last and what the handler did, until a session
\* reads its next message
NoLast == [msg |-> NoMsg, res |-> NoResult]

Init ==
    /\ Rooms = <<>>
    /\ objs = <<>>
    /\ conns = <<>>
    /\ timers = {}
    /\ playerCounter = 0
    /\ mu = "free"
    /\ crashed = FALSE
    /\ last = NoLast

Kinds(full, kinds) == IF full THEN kinds ELSE {1}

\* sort.Slice(room.Players, by Index): an insertion sort for lists this short,
\* which keeps players of equal Index in their order
RECURSIVE InsertByIndex(_, _, _)
InsertByIndex(h, sorted, o) ==
    IF sorted = <<>> THEN <<o>>
    ELSE IF h[sorted[Len(sorted)]].Index <= h[o].Index THEN Append(sorted, o)
    ELSE Append(InsertByIndex(h, Take(sorted, Len(sorted) - 1), o), sorted[Len(sorted)])

\* the players left in the order in which they were appended
SortPlayersNone(h, players) == players

RECURSIVE SortPlayers(_, _)
SortPlayers(h, players) ==
    IF players = <<>> THEN <<>>
    ELSE InsertByIndex(h, SortPlayers(h, Take(players, Len(players) - 1)),
                       players[Len(players)])

\* players[i] = o for the first i whose player has that ID (the lists unchanged if none)
ReplaceByID(h, players, id, o) ==
    LET i == IndexOfID(h, players, id)
    IN  IF i < 0 THEN players ELSE [players EXCEPT ![i + 1] = o]

\* the list with no player removed
RemoveByIDNone(h, players, id) == players

RemoveByID(h, players, id) ==
    LET i == IndexOfID(h, players, id)
    IN  IF i < 0 THEN players ELSE RemoveAt(players, i + 1)

---------------------------------------------------------------------------
(* Connections: HandleWebSocket, registerPlayer *)

\* a connection is accepted and its handler calls registerPlayer
Connect(origin) ==
    /\ ~crashed
    /\ Len(conns) < MaxConns
    /\ conns' = Append(conns, NewSession(origin))
    /\ UNCHANGED <<Rooms, objs, timers, playerCounter, mu, crashed, last>>

\* registerPlayer without its call of findReplacementSpot
findReplacementSpotSkipped(c) ==
    /\ ~crashed
    /\ conns[c].pc = "lookup"
    /\ mu = "free"
    /\ conns' = [conns EXCEPT ![c].pc = "existing"]
    /\ UNCHANGED <<Rooms, objs, timers, playerCounter, mu, crashed, last>>

\* findReplacementSpot, under the read lock: any saved player that is leaving
\* (map iteration order), with the room its RoomID names
findReplacementSpot(c) ==
    /\ ~crashed
    /\ conns[c].pc = "lookup"
    /\ mu = "free"
    /\ LET found == UNION {Rooms[r].SavedPlayers : r \in DOMAIN Rooms}
       IN  IF found = {}
           THEN conns' = [conns EXCEPT ![c].pc = "existing"]
           ELSE \E data \in found :
                    /\ data.IsLeaving
                    /\ conns' = [conns EXCEPT ![c].pc = "replace",
                                              ![c].room = data.RoomID,
                                              ![c].saved = data]
    /\ UNCHANGED <<Rooms, objs, timers, playerCounter, mu, crashed, last>>

\* handleReplacement, under the write lock. broadcastTurnUpdate panics when
\* Game.CurrentPlayerIndex is not an index of Game.Players.
handleReplacement(c) ==
    /\ ~crashed
    /\ conns[c].pc = "replace"
    /\ mu = "free"
    /\ LET r == conns[c].room
           savedData == conns[c].saved
           rm == Rooms[r]
           o == Len(objs) + 1
           newPlayer == [ID |-> savedData.PlayerID, Team |-> savedData.Team,
                         Hand |-> savedData.Hand, Conn |-> c, Connected |-> TRUE,
                         Index |-> savedData.Index]
           h == Append(objs, newPlayer)
           players == SortPlayers(h, Append(rm.Players, o))
           resume == Len(players) = RoomSize
           rm1 == [rm EXCEPT
                     !.Players = players,
                     !.Game.Players = ReplaceByID(objs, @, savedData.PlayerID, o),
                     !.SavedPlayers = {sp \in @ : sp.PlayerID # savedData.PlayerID},
                     !.Game.IsGameOver = IF resume THEN FALSE ELSE @]
       IN  /\ playerCounter' = playerCounter + 1
           /\ objs' = h
           /\ Rooms' = [Rooms EXCEPT ![r] = rm1]
           /\ conns' = [conns EXCEPT
                          ![c].player = o,
                          ![c].pc = IF resume /\ TurnOutOfRange(rm1.Game)
                                    THEN "panicked" ELSE "idle"]
    /\ UNCHANGED <<timers, mu, crashed, last>>

\* findExistingPlayer, under the read lock: a disconnected player of some room whose
\* connection has the origin of the incoming one (the first such player of a room,
\* the rooms in map iteration order)
findExistingPlayer(c) ==
    /\ ~crashed
    /\ conns[c].pc = "existing"
    /\ mu = "free"
    /\ LET match(o) == /\ ~objs[o].Connected
                       /\ conns[objs[o].Conn].origin = conns[c].origin
           first(players) == {i \in DOMAIN players :
                                 /\ match(players[i])
                                 /\ \A j \in 1..(i - 1) : ~match(players[j])}
           found == UNION {{Rooms[r].Players[i] : i \in first(Rooms[r].Players)} :
                             r \in DOMAIN Rooms}
       IN  IF found = {}
           THEN conns' = [conns EXCEPT ![c].pc = "seat"]
           ELSE \E o \in found :
                    conns' = [conns EXCEPT ![c].pc = "reconnect", ![c].player = o]
    /\ UNCHANGED <<Rooms, objs, timers, playerCounter, mu, crashed, last>>

\* handleReconnectingPlayer, under the write lock. When the player is still in a
\* room, sendReconnectNotifications calls sendGameState, whose findPlayerRoom takes
\* the read lock of the mutex this goroutine holds for writing: it never returns and
\* the lock is never released.
handleReconnectingPlayer(c) ==
    /\ ~crashed
    /\ conns[c].pc = "reconnect"
    /\ mu = "free"
    /\ LET o == conns[c].player
           id == objs[o].ID
           h == [objs EXCEPT ![o].Conn = c, ![o].Connected = TRUE]
           rooms == {r \in DOMAIN Rooms : IndexOfID(objs, Rooms[r].Players, id) >= 0}
       IN  /\ objs' = h
           /\ IF rooms = {}
              THEN /\ conns' = [conns EXCEPT ![c].pc = "closed"]
                   /\ UNCHANGED <<Rooms, mu>>
              ELSE \E r \in rooms :
                   /\ Rooms' = [Rooms EXCEPT
                         ![r].Players = ReplaceByID(objs, @, id, o),
                         ![r].Game.Players = ReplaceByID(objs, @, id, o)]
                   /\ conns' = [conns EXCEPT ![c].pc = "blocked"]
                   /\ mu' = "stuck"
    /\ UNCHANGED <<timers, playerCounter, crashed, last>>

\* getAvailableRoom: the rooms it may return (0: it creates a room)
getAvailableRoom ==
    LET healing == {r \in DOMAIN Rooms :
                      Cardinality(Rooms[r].SavedPlayers) > 0 /\ Len(Rooms[r].Players) < RoomSize}
        open == {r \in DOMAIN Rooms :
                      Len(Rooms[r].Players) < RoomSize /\ ~Rooms[r].Game.IsGameOver}
    IN  IF healing # {} THEN healing ELSE IF open # {} THEN open ELSE {0}

\* registerPlayer, the part under the write lock that seats a new player, with
\* initializeGame when the room becomes full
registerPlayer(c, kinds) ==
    /\ ~crashed
    /\ conns[c].pc = "seat"
    /\ mu = "free"
    /\ \E r0 \in getAvailableRoom :
       LET r == IF r0 = 0 THEN Len(Rooms) + 1 ELSE r0
           rm == IF r0 = 0 THEN NewRoom ELSE Rooms[r0]
           o == Len(objs) + 1
           newPlayer == [ID |-> playerCounter + 1,
                         Team |-> determineTeam(Len(rm.Players)),
                         Hand |-> <<>>, Conn |-> c, Connected |-> TRUE,
                         Index |-> Len(rm.Players)]
           h == Append(objs, newPlayer)
           rm1 == [rm EXCEPT !.Players = Append(@, o), !.Game.Players = Append(@, o)]
           full == Len(rm1.Players) = RoomSize
       IN  \E kInit \in Kinds(full, kinds), kDeal \in Kinds(full, kinds) :
           LET started == initializeGame(rm1, h, kInit, kDeal)
               rm2 == IF full THEN started.room ELSE rm1
               h2 == IF full THEN started.h ELSE h
           IN  /\ playerCounter' = playerCounter + 1
               /\ objs' = h2
               /\ Rooms' = IF r0 = 0 THEN Append(Rooms, rm2) ELSE [Rooms EXCEPT ![r] = rm2]
               /\ conns' = [conns EXCEPT ![c].pc = "idle", ![c].player = o]
    /\ UNCHANGED <<timers, mu, crashed, last>>

\* unregisterPlayer that pauses the game of the player as a leave does
unregisterPlayerPausing(c) ==
    /\ ~crashed
    /\ conns[c].pc = "idle"
    /\ objs' = [objs EXCEPT ![conns[c].player].Connected = FALSE]
    /\ timers' = timers \cup {conns[c].player}
    /\ conns' = [conns EXCEPT ![c].pc = "closed"]
    /\ Rooms' = SubSeq([r \in DOMAIN Rooms |->
                   IF IndexOfID(objs, Rooms[r].Players, objs[conns[c].player].ID) >= 0
                   THEN [Rooms[r] EXCEPT !.Game.IsGameOver = TRUE]
                   ELSE Rooms[r]], 1, Len(Rooms))
    /\ UNCHANGED <<playerCounter, mu, crashed, last>>

\* conn.ReadJSON fails: unregisterPlayer(player), then the handler returns
unregisterPlayer(c) ==
    /\ ~crashed
    /\ conns[c].pc = "idle"
    /\ objs' = [objs EXCEPT ![conns[c].player].Connected = FALSE]
    /\ timers' = timers \cup {conns[c].player}
    /\ conns' = [conns EXCEPT ![c].pc = "closed"]
    /\ UNCHANGED <<Rooms, playerCounter, mu, crashed, last>>

\* the goroutine of unregisterPlayer after ReconnectTimeout: removePlayerPermanently
\* if the player is still disconnected. It takes no lock for the removal; its
\* broadcastGameUpdate dereferences Game.TrumpPlayer for each remaining player of
\* the room, a nil pointer before the game has started: the process ends.
removePlayerPermanently(o) ==
    /\ ~crashed
    /\ o \in timers
    /\ timers' = timers \ {o}
    /\ IF objs[o].Connected
       THEN UNCHANGED <<Rooms, crashed>>
       ELSE LET id == objs[o].ID
                hit == {r \in DOMAIN Rooms : IndexOfID(objs, Rooms[r].Players, id) >= 0}
                after == SubSeq([r \in DOMAIN Rooms |->
                                   [Rooms[r] EXCEPT !.Players = RemoveByID(objs, @, id)]],
                                1, Len(Rooms))
            IN  /\ Rooms' = after
                /\ crashed' = \E r \in hit : /\ mu = "free"
                                             /\ Len(after[r].Players) > 0
                                             /\ after[r].Game.TrumpPlayer = Nil
    /\ UNCHANGED <<objs, conns, playerCounter, mu, last>>

---------------------------------------------------------------------------
(* Messages the clients send *)

\* the cards of a hand among the first OfferPerSuit of their suit
OfferedCards(hand) ==
    {hand[i] : i \in {i \in DOMAIN hand :
        Cardinality({j \in 1..(i - 1) : hand[j].Suit = hand[i].Suit}) < OfferPerSuit}}

\* play_card payloads of a client: the offered cards of its hand, well-formed; the
\* first card of its hand with a fractional value, with the value of the next rank,
\* with a suit and with a rank that is not valid; the cards lying in the current
\* trick (a card sent again); and a payload that is not an object
PlayOffers(hand, trick) ==
    {CardMsg(cd.Suit, cd.Rank, 2 * cd.Value) : cd \in OfferedCards(hand)}
    \cup UNION {{CardMsg(cd.Suit, cd.Rank, 2 * cd.Value + 1),
                 CardMsg(cd.Suit, cd.Rank, 2 * cd.Value + 2),
                 CardMsg("stars", cd.Rank, 2 * cd.Value),
                 CardMsg(cd.Suit, "1", 2 * cd.Value)} : cd \in Range(Prefix(hand, 1))}
    \cup {CardMsg(cd.Suit, cd.Rank, 2 * cd.Value) : cd \in Range(trick)}
    \cup {[CardMsg("", "", 0) EXCEPT !.shape = "string"]}

\* choose_trump payloads of a client: the suits of the first OfferPerSuit cards of
\* its hand and a payload that is not a string; with others, also a string that is
\* no suit
TrumpOffers(hand, others) ==
    {TrumpMsg(cd.Suit) : cd \in Range(Prefix(hand, OfferPerSuit))}
    \cup {[TrumpMsg("") EXCEPT !.shape = "map"]}
    \cup (IF others THEN {TrumpMsg("stars")} ELSE {})

\* the messages the client of session c sends for the game of room r
HandOfSession(c) == objs[conns[c].player].Hand
PlayOffersOf(c, r) == PlayOffers(HandOfSession(c), Rooms[r].Game.CurrentTrick)
TrumpOffersOf(c, others) == TrumpOffers(HandOfSession(c), others)

\* clients that send any message at any time
AnyMessage(c, r) == PlayOffersOf(c, r) \cup TrumpOffersOf(c, TRUE) \cup {LeaveMsg}
\* clients that play: they send choose_trump while the deck has cards to deal, and
\* play cards once the hands have been dealt
GameMessage(c, r) ==
    IF Rooms[r].Game.Deck # <<>> THEN TrumpOffersOf(c, FALSE) ELSE PlayOffersOf(c, r)

\* the sessions whose clients send leave_game, and those whose connections fail
Leavers == 1..MaxLeavers
Droppers == (MaxLeavers + 1)..(MaxLeavers + MaxDroppers)

\* clients that leave
RoomMessage(c, r) == IF c \in Leavers THEN {LeaveMsg} ELSE {}

\* clients that play by the rules of the protocol: the trump player chooses a suit
\* of its hand, then the players send cards of their hands
MatchMessage(c, r) ==
    IF Rooms[r].Game.Deck # <<>>
    THEN IF Rooms[r].Game.TrumpPlayer = conns[c].player
         THEN {TrumpMsg(cd.Suit) : cd \in Range(Prefix(HandOfSession(c), OfferPerSuit))}
         ELSE {}
    ELSE {CardMsg(cd.Suit, cd.Rank, 2 * cd.Value) : cd \in OfferedCards(HandOfSession(c))}

\* the four seats of room r are taken by players that are connected
AllSeated(r) ==
    /\ Len(Rooms[r].Players) = RoomSize
    /\ \A o \in Range(Rooms[r].Players) : objs[o].Connected

\* clients at a table that a player leaves: they play by the rules of the protocol
\* while all four are at the table, and the client of a session among Leavers may
\* send leave_game; they stop once a new connection has arrived
TableMessage(c, r) ==
    IF Len(conns) = RoomSize
    THEN (IF AllSeated(r) THEN MatchMessage(c, r) ELSE {}) \cup RoomMessage(c, r)
    ELSE {}

\* clients that do not wait for the phases of a round: they send choose_trump and
\* the cards of their hands at any time
EagerMessage(c, r) ==
    TrumpOffersOf(c, FALSE)
    \cup {CardMsg(cd.Suit, cd.Rank, 2 * cd.Value) : cd \in OfferedCards(HandOfSession(c))}

\* no message has changed the game of room r since initializeGame
Untouched(r) ==
    /\ Rooms[r].Game.TrumpSuit = ""
    /\ Rooms[r].Game.CurrentTrick = <<>>
    /\ Rooms[r].Game.CurrentRound = 1
    /\ Rooms[r].Game.Scores = NoScores

\* clients at a table whose seat is taken over before the first message of the
\* game: the client of a session among Leavers sends leave_game and nothing else;
\* once a new connection holds the seat, the four at the table play by the rules
\* of the protocol, the trump player being the one with the ID of Game.TrumpPlayer
RejoinMessage(c, r) ==
    IF c \in Leavers
    THEN (IF Len(conns) = RoomSize /\ Untouched(r) THEN {LeaveMsg} ELSE {})
    ELSE IF Len(conns) = RoomSize \/ ~AllSeated(r) THEN {}
    ELSE IF Rooms[r].Game.Deck # <<>>
    THEN IF objs[conns[c].player].ID = objs[Rooms[r].Game.TrumpPlayer].ID
         THEN {TrumpMsg(cd.Suit) : cd \in Range(Prefix(HandOfSession(c), OfferPerSuit))}
         ELSE {}
    ELSE {CardMsg(cd.Suit, cd.Rank, 2 * cd.Value) : cd \in OfferedCards(HandOfSession(c))}

\* clients at a table whose vacated seat two new connections take at the same
\* time: the client of a session among Leavers sends leave_game before the first
\* message of the game and nothing else; once both connections have been given
\* the seat, all at the table play by the rules of the protocol
CrowdMessage(c, r) ==
    IF c \in Leavers
    THEN (IF Len(conns) = RoomSize /\ Untouched(r) THEN {LeaveMsg} ELSE {})
    ELSE IF Len(conns) < RoomSize + 2 \/ Len(Rooms[r].Players) < RoomSize + 1 THEN {}
    ELSE IF Rooms[r].Game.Deck # <<>>
    THEN IF objs[conns[c].player].ID = objs[Rooms[r].Game.TrumpPlayer].ID
         THEN {TrumpMsg(cd.Suit) : cd \in Range(Prefix(HandOfSession(c), OfferPerSuit))}
         ELSE {}
    ELSE {CardMsg(cd.Suit, cd.Rank, 2 * cd.Value) : cd \in OfferedCards(HandOfSession(c))}

\* clients at a table whose seat is taken over before the first message of the
\* game, as with RejoinMessage, where the client of the player that left keeps
\* its connection and, once a new connection holds the seat, goes on sending the
\* messages of a player: choose_trump with a suit of the cards it held when it
\* left, and those cards
StaleMessage(c, r) ==
    IF c \in Leavers /\ Len(conns) > RoomSize /\ AllSeated(r)
    THEN IF Rooms[r].Game.Deck # <<>>
         THEN {TrumpMsg(cd.Suit) : cd \in Range(Prefix(HandOfSession(c), OfferPerSuit))}
         ELSE {CardMsg(cd.Suit, cd.Rank, 2 * cd.Value) : cd \in OfferedCards(HandOfSession(c))}
    ELSE RejoinMessage(c, r)

\* the messages that the client of session c may send for the game of room r, for
\* each kind of clients
\* the cards of a hand that follow the suit led in the trick, the whole hand when
\* there is none or no card has been led
FollowingCards(hand, trick) ==
    IF trick # <<>> /\ \E i \in DOMAIN hand : hand[i].Suit = trick[1].Suit
    THEN SelectSeq(hand, LAMBDA cd : cd.Suit = trick[1].Suit)
    ELSE hand

\* clients that send a card only at their turn: the trump player chooses a suit of
\* its hand, then the player that Game.CurrentPlayerIndex points to sends the first
\* card of its hand that follows suit, without waiting for the trick before to be
\* resolved
TurnMessage(c, r) ==
    IF Rooms[r].Game.Deck # <<>>
    THEN MatchMessage(c, r)
    ELSE IF /\ Rooms[r].Game.CurrentPlayerIndex < Len(Rooms[r].Game.Players)
            /\ Rooms[r].Game.Players[Rooms[r].Game.CurrentPlayerIndex + 1] = conns[c].player
            /\ HandOfSession(c) # <<>>
         THEN {CardMsg(cd.Suit, cd.Rank, 2 * cd.Value) :
                  cd \in {Head(FollowingCards(HandOfSession(c), Rooms[r].Game.CurrentTrick))}}
         ELSE {}

\* clients that play as in GameMessage, and whose choose_trump may also name a
\* string that is no suit
SuitMessage(c, r) ==
    IF Rooms[r].Game.Deck # <<>> THEN TrumpOffersOf(c, TRUE) ELSE PlayOffersOf(c, r)

Sends(clients, c, r) ==
    CASE clients = "any" -> AnyMessage(c, r)
      [] clients = "game" -> GameMessage(c, r)
      [] clients = "room" -> RoomMessage(c, r)
      [] clients = "match" -> MatchMessage(c, r)
      [] clients = "table" -> TableMessage(c, r)
      [] clients = "eager" -> EagerMessage(c, r)
      [] clients = "rejoin" -> RejoinMessage(c, r)
      [] clients = "crowd" -> CrowdMessage(c, r)
      [] clients = "turn" -> TurnMessage(c, r)
      [] clients = "stale" -> StaleMessage(c, r)
      [] clients = "suit" -> SuitMessage(c, r)

InFlight == {c \in DOMAIN conns : conns[c].pc \in {"checked", "deal2", "deal3", "resolve"}}

---------------------------------------------------------------------------
(* processMessage *)

\* findPlayerRoom: the rooms that hold the player's ID, active or saved
findPlayerRoom(o) ==
    {r \in DOMAIN Rooms :
        \/ IndexOfID(objs, Rooms[r].Players, objs[o].ID) >= 0
        \/ \E sp \in Rooms[r].SavedPlayers : sp.PlayerID = objs[o].ID}

\* HandleWebSocket's conn.ReadJSON returns message m and processMessage runs up to
\* its switch: the player is connected, findPlayerRoom (read lock) finds its room
\* and the game is not paused. clients: the kind of clients that send messages;
\* maxRound caps the rounds, maxInFlight the handlers inside processMessage.
processMessage(c, clients, maxRound, maxInFlight) ==
    /\ ~crashed
    /\ conns[c].pc = "idle"
    /\ mu = "free"
    /\ Cardinality(InFlight) < maxInFlight
    /\ objs[conns[c].player].Connected
    /\ \E r \in findPlayerRoom(conns[c].player) :
          /\ ~Rooms[r].Game.IsGameOver
          /\ Rooms[r].Game.CurrentRound <= maxRound
          /\ \E m \in Sends(clients, c, r) :
                conns' = [conns EXCEPT ![c].pc = "checked", ![c].room = r, ![c].msg = m]
    /\ last' = NoLast
    /\ UNCHANGED <<Rooms, objs, timers, playerCounter, mu, crashed>>

\* the pc of a session when its handler returns, panics, or has to take the lock
After(res, needsLock) ==
    IF res.panic THEN "panicked"
    ELSE IF needsLock /\ mu # "free" THEN "blocked"
    ELSE "idle"

\* case "play_card"
PlayCardStep(c) ==
    /\ ~crashed
    /\ conns[c].pc = "checked"
    /\ conns[c].msg.action = "play_card"
    /\ \E kDeal \in 1..NumShuffles :
       LET r == conns[c].room
           b == PlayCardBody(Rooms[r], objs, conns[c].player, conns[c].msg, kDeal)
       IN  /\ Rooms' = [Rooms EXCEPT ![r] = b.room]
           /\ objs' = b.h
           /\ conns' = [conns EXCEPT ![c].pc = After(b.res, b.broadcast),
                                     ![c].msg = NoMsg]
           /\ last' = [msg |-> conns[c].msg, res |-> b.res]
    /\ UNCHANGED <<timers, playerCounter, mu, crashed>>

\* case "play_card": the payload passes, Game.PlayCard returns nil and the card it
\* appended completes the trick (len(CurrentTrick) == len(room.Players))
CompletesTheTrick(rm, h, o, m) ==
    /\ PayloadError(m) = ""
    /\ ~(Len(rm.Game.Players) > 0 /\ TurnOutOfRange(rm.Game))
    /\ PlayCardError(rm.Game, h, h[o].ID, PayloadCard(m)) = ""
    /\ Len(rm.Game.CurrentTrick) + 1 = Len(rm.Players)

\* case "play_card" up to the test that finds the trick complete: the handlers of
\* other sessions run between Game.PlayCard and the resolution of the trick, since
\* processMessage takes no lock. A card that does not complete the trick is
\* handled as in PlayCardStep.
PlayCardOnlyStep(c) ==
    /\ ~crashed
    /\ conns[c].pc = "checked"
    /\ conns[c].msg.action = "play_card"
    /\ LET r == conns[c].room
           o == conns[c].player
           card == PayloadCard(conns[c].msg)
       IN  IF CompletesTheTrick(Rooms[r], objs, o, conns[c].msg)
           THEN /\ Rooms' = [Rooms EXCEPT ![r].Game = PlayCard(@, card)]
                /\ objs' = [objs EXCEPT ![o].Hand = RemoveCard(@, card)]
                /\ conns' = [conns EXCEPT ![c].pc = "resolve"]
                /\ last' = [msg |-> conns[c].msg,
                            res |-> [NoResult EXCEPT !.out = "accepted"]]
                /\ UNCHANGED <<timers, playerCounter, mu, crashed>>
           ELSE PlayCardStep(c)

\* case "play_card" from DetermineTrickWinner to the end of the handler
ResolveTrickStep(c) ==
    /\ ~crashed
    /\ conns[c].pc = "resolve"
    /\ \E kDeal \in 1..NumShuffles :
       LET r == conns[c].room
           b == ResolveTrick(Rooms[r], objs, kDeal)
       IN  /\ Rooms' = [Rooms EXCEPT ![r] = b.room]
           /\ objs' = b.h
           /\ conns' = [conns EXCEPT ![c].pc = After(b.res, b.broadcast),
                                     ![c].msg = NoMsg]
           /\ last' = [msg |-> conns[c].msg, res |-> b.res]
    /\ UNCHANGED <<timers, playerCounter, mu, crashed>>

\* case "choose_trump", up to the first sleep
ChooseTrumpStep(c) ==
    /\ ~crashed
    /\ conns[c].pc = "checked"
    /\ conns[c].msg.action = "choose_trump"
    /\ LET r == conns[c].room
           b == ChooseTrumpBody(Rooms[r], objs, conns[c].player, conns[c].msg)
       IN  /\ Rooms' = [Rooms EXCEPT ![r] = b.room]
           /\ objs' = b.h
           /\ conns' = [conns EXCEPT ![c].pc =
                          IF b.res.out = "accepted" /\ ~b.res.panic THEN "deal2"
                          ELSE After(b.res, FALSE),
                                     ![c].msg = NoMsg]
           /\ last' = [msg |-> conns[c].msg, res |-> b.res]
    /\ UNCHANGED <<timers, playerCounter, mu, crashed>>

\* case "choose_trump", the second batch
DealSecondStep(c) ==
    /\ ~crashed
    /\ conns[c].pc = "deal2"
    /\ LET r == conns[c].room
           b == DealSecondBatch(Rooms[r], objs)
       IN  /\ Rooms' = [Rooms EXCEPT ![r] = b.room]
           /\ objs' = b.h
           /\ conns' = [conns EXCEPT ![c].pc = IF b.panic THEN "panicked" ELSE "deal3"]
    /\ UNCHANGED <<timers, playerCounter, mu, crashed, last>>

\* case "choose_trump", the third batch and the start of play
DealThirdStep(c) ==
    /\ ~crashed
    /\ conns[c].pc = "deal3"
    /\ LET r == conns[c].room
           b == DealThirdBatch(Rooms[r], objs, mu = "free")
       IN  /\ Rooms' = [Rooms EXCEPT ![r] = b.room]
           /\ objs' = b.h
           /\ conns' = [conns EXCEPT ![c].pc =
                          IF b.panic THEN "panicked"
                          ELSE IF mu # "free" THEN "blocked" ELSE "idle"]
    /\ UNCHANGED <<timers, playerCounter, mu, crashed, last>>

\* case "leave_game": handlePlayerLeave, under the write lock
LeaveStep(c) ==
    /\ ~crashed
    /\ conns[c].pc = "checked"
    /\ conns[c].msg.action = "leave_game"
    /\ IF mu = "free"
       THEN LET r == conns[c].room
            IN  /\ Rooms' = [Rooms EXCEPT ![r] =
                               handlePlayerLeave(Rooms[r], r, objs, conns[c].player)]
                /\ conns' = [conns EXCEPT ![c].pc = "idle", ![c].msg = NoMsg]
                /\ last' = [msg |-> conns[c].msg,
                            res |-> [NoResult EXCEPT !.out = "accepted"]]
       ELSE /\ conns' = [conns EXCEPT ![c].pc = "blocked", ![c].msg = NoMsg]
            /\ UNCHANGED <<Rooms, last>>
    /\ UNCHANGED <<objs, timers, playerCounter, mu, crashed>>

---------------------------------------------------------------------------
(* Specifications *)

Origins == 1..NumOrigins

Next ==
    \/ \E origin \in Origins : Connect(origin)
    \/ \E c \in DOMAIN conns : findReplacementSpot(c)
    \/ \E c \in DOMAIN conns : handleReplacement(c)
    \/ \E c \in DOMAIN conns : findExistingPlayer(c)
    \/ \E c \in DOMAIN conns : handleReconnectingPlayer(c)
    \/ \E c \in DOMAIN conns : registerPlayer(c, 1..NumShuffles)
    \/ \E c \in DOMAIN conns : unregisterPlayer(c)
    \/ \E o \in DOMAIN objs : removePlayerPermanently(o)
    \/ \E c \in DOMAIN conns : processMessage(c, "any", MaxRound, MaxInFlight)
    \/ \E c \in DOMAIN conns : PlayCardStep(c)
    \/ \E c \in DOMAIN conns : ChooseTrumpStep(c)
    \/ \E c \in DOMAIN conns : DealSecondStep(c)
    \/ \E c \in DOMAIN conns : DealThirdStep(c)
    \/ \E c \in DOMAIN conns : LeaveStep(c)

Spec == Init /\ [][Next]_vars

---------------------------------------------------------------------------
(* The rules engine alone: four seated players whose game has been started *)

\* the player that registerPlayer creates for the n-th connection of an empty registry
SeatedPlayer(n) ==
    [ID |-> n, Team |-> determineTeam(n - 1), Hand |-> <<>>, Conn |-> n,
     Connected |-> TRUE, Index |-> n - 1]

SeatedHeap == [n \in 1..RoomSize |-> SeatedPlayer(n)]
SeatedRoom ==
    [NewRoom EXCEPT !.Players = [n \in 1..RoomSize |-> n],
                    !.Game.Players = [n \in 1..RoomSize |-> n]]
SeatedSession(n) == [NewSession(1) EXCEPT !.pc = "idle", !.player = n]

\* the registry after four connections have been seated one after the other and
\* initializeGame has run for the room they fill
StartedGame(kInit, kDeal) ==
    LET started == initializeGame(SeatedRoom, SeatedHeap, kInit, kDeal)
    IN  /\ Rooms = <<started.room>>
        /\ objs = started.h
        /\ conns = [n \in 1..RoomSize |-> SeatedSession(n)]
        /\ timers = {}
        /\ playerCounter = RoomSize
        /\ mu = "free"
        /\ crashed = FALSE
        /\ last = NoLast

InitGame == \E kInit \in 1..NumShuffles, kDeal \in 1..NumShuffles : StartedGame(kInit, kDeal)

NextGame ==
    \/ \E c \in DOMAIN conns : processMessage(c, "game", MaxRound, 1)
    \/ \E c \in DOMAIN conns : PlayCardStep(c)
    \/ \E c \in DOMAIN conns : ChooseTrumpStep(c)
    \/ \E c \in DOMAIN conns : DealSecondStep(c)
    \/ \E c \in DOMAIN conns : DealThirdStep(c)

SpecGame == InitGame /\ [][NextGame]_vars

\* the same four players, whose clients send any string as the trump suit
NextSuit ==
    \/ \E c \in DOMAIN conns : processMessage(c, "suit", MaxRound, 1)
    \/ \E c \in DOMAIN conns : PlayCardStep(c)
    \/ \E c \in DOMAIN conns : ChooseTrumpStep(c)
    \/ \E c \in DOMAIN conns : DealSecondStep(c)
    \/ \E c \in DOMAIN conns : DealThirdStep(c)

SpecSuit == InitGame /\ [][NextSuit]_vars

---------------------------------------------------------------------------
(* The lottery of the trump player: three players are seated and the fourth
   connection is about to be seated by registerPlayer, which starts the game *)

InitLottery ==
    /\ Rooms = <<[NewRoom EXCEPT !.Players = [n \in 1..(RoomSize - 1) |-> n],
                                 !.Game.Players = [n \in 1..(RoomSize - 1) |-> n]]>>
    /\ objs = [n \in 1..(RoomSize - 1) |-> SeatedPlayer(n)]
    /\ conns = [n \in 1..RoomSize |->
                  IF n < RoomSize THEN SeatedSession(n)
                  ELSE [NewSession(1) EXCEPT !.pc = "seat"]]
    /\ timers = {}
    /\ playerCounter = RoomSize - 1
    /\ mu = "free"
    /\ crashed = FALSE
    /\ last = NoLast

NextLottery == \E c \in DOMAIN conns : registerPlayer(c, 1..NumLotteryShuffles)

SpecLottery == InitLottery /\ [][NextLottery]_vars

---------------------------------------------------------------------------
(* The seats of a room: players leave, disconnect, expire and are replaced while
   new connections arrive *)

InitRoom == StartedGame(1, 1)

NextRoom ==
    \/ \E origin \in Origins : Connect(origin)
    \/ \E c \in DOMAIN conns : findReplacementSpot(c)
    \/ \E c \in DOMAIN conns : handleReplacement(c)
    \/ \E c \in DOMAIN conns : findExistingPlayer(c)
    \/ \E c \in DOMAIN conns : handleReconnectingPlayer(c)
    \/ \E c \in DOMAIN conns : registerPlayer(c, {1})
    \/ \E c \in Droppers : unregisterPlayer(c)
    \/ \E o \in DOMAIN objs : removePlayerPermanently(o)
    \/ \E c \in DOMAIN conns : processMessage(c, "room", MaxRound, MaxInFlight)
    \/ \E c \in DOMAIN conns : LeaveStep(c)

SpecRoom == InitRoom /\ [][NextRoom]_vars

\* the goroutine that unregisterPlayer starts wakes up after ReconnectTimeout
SpecRoomFair ==
    SpecRoom /\ WF_vars(\E o \in DOMAIN objs : removePlayerPermanently(o))

\* the same room, where also the connection of a player that has sent leave_game
\* may fail: the handler of that connection stays in its read loop after the leave
NextDeparted ==
    \/ \E origin \in Origins : Connect(origin)
    \/ \E c \in DOMAIN conns : findReplacementSpot(c)
    \/ \E c \in DOMAIN conns : handleReplacement(c)
    \/ \E c \in DOMAIN conns : findExistingPlayer(c)
    \/ \E c \in DOMAIN conns : handleReconnectingPlayer(c)
    \/ \E c \in DOMAIN conns : registerPlayer(c, {1})
    \/ \E c \in Leavers \cup Droppers : unregisterPlayer(c)
    \/ \E o \in DOMAIN objs : removePlayerPermanently(o)
    \/ \E c \in DOMAIN conns : processMessage(c, "room", MaxRound, MaxInFlight)
    \/ \E c \in DOMAIN conns : LeaveStep(c)

SpecDeparted == InitRoom /\ [][NextDeparted]_vars

---------------------------------------------------------------------------
(* The last round of a match: handlers of two sessions may interleave *)

\* round-tallies from which the round may or must end the match
LateTallies ==
    {[team1 |-> MatchTarget - 3, team2 |-> MatchTarget - 1],
     [team1 |-> MatchTarget - 1, team2 |-> MatchTarget - 1]}
\* the number of the round that follows four rounds
LateRound == MaxRound + 4

\* the registry after restartGameForNextRound has started round LateRound for four
\* seated players: the round before it was played with trump suit hearts chosen by
\* the first player and won by its team
InitMatch ==
    \E tallies \in LateTallies, kDeal \in 1..NumShuffles :
       LET roundWinner == SeatedPlayer(1).Team
           before == [SeatedRoom EXCEPT !.Game.TrumpPlayer = 1,
                                        !.Game.TrumpSuit = "hearts",
                                        !.Game.RoundScores = tallies,
                                        !.Game.CurrentRound = LateRound - 1]
           started == restartGameForNextRound(before, SeatedHeap, roundWinner, kDeal)
       IN  /\ Rooms = <<[started.room EXCEPT !.Game = ResetTrick(@)]>>
           /\ objs = started.h
           /\ conns = [n \in 1..RoomSize |-> SeatedSession(n)]
           /\ timers = {}
           /\ playerCounter = RoomSize
           /\ mu = "free"
           /\ crashed = FALSE
           /\ last = NoLast

NextMatch ==
    \/ \E c \in DOMAIN conns : processMessage(c, "match", LateRound, MaxInFlight)
    \/ \E c \in DOMAIN conns : PlayCardStep(c)
    \/ \E c \in DOMAIN conns : ChooseTrumpStep(c)
    \/ \E c \in DOMAIN conns : DealSecondStep(c)
    \/ \E c \in DOMAIN conns : DealThirdStep(c)

SpecMatch == InitMatch /\ [][NextMatch]_vars

---------------------------------------------------------------------------
(* A table that a player leaves in the middle of the game: the others play on
   until the game is paused, and a new connection takes the seat *)

\* a connection arrives once a seat of a room is free, saved for a replacement or
\* held by a player that is disconnected; arrivals bounds the connections that arrive
Arrive(origin, arrivals) ==
    /\ \E r \in DOMAIN Rooms :
          \/ Rooms[r].SavedPlayers # {}
          \/ Len(Rooms[r].Players) < RoomSize
          \/ \E o \in Range(Rooms[r].Players) : ~objs[o].Connected
    /\ Len(conns) < RoomSize + arrivals
    /\ Connect(origin)

NextTable ==
    \/ \E origin \in Origins : Arrive(origin, MaxLeavers)
    \/ \E c \in DOMAIN conns : findReplacementSpot(c)
    \/ \E c \in DOMAIN conns : handleReplacement(c)
    \/ \E c \in DOMAIN conns : processMessage(c, "table", MaxRound, MaxInFlight)
    \/ \E c \in DOMAIN conns : PlayCardStep(c)
    \/ \E c \in DOMAIN conns : ChooseTrumpStep(c)
    \/ \E c \in DOMAIN conns : DealSecondStep(c)
    \/ \E c \in DOMAIN conns : DealThirdStep(c)
    \/ \E c \in DOMAIN conns : LeaveStep(c)

SpecTable == InitRoom /\ [][NextTable]_vars

---------------------------------------------------------------------------
(* The paused flag: a game in which a player leaves, another disconnects, and a
   new connection is seated, replaces the one or reconnects as the other *)

\* the connection of session c fails while the game of its player is paused
FailsWhilePaused(c) ==
    /\ \E r \in findPlayerRoom(conns[c].player) : Rooms[r].Game.IsGameOver
    /\ unregisterPlayer(c)

NextPause ==
    \/ \E origin \in Origins : Arrive(origin, MaxLeavers + MaxDroppers)
    \/ \E c \in DOMAIN conns : findReplacementSpot(c)
    \/ \E c \in DOMAIN conns : handleReplacement(c)
    \/ \E c \in DOMAIN conns : findExistingPlayer(c)
    \/ \E c \in DOMAIN conns : handleReconnectingPlayer(c)
    \/ \E c \in DOMAIN conns : registerPlayer(c, {1})
    \/ \E c \in Droppers : FailsWhilePaused(c)
    \/ \E o \in DOMAIN objs : removePlayerPermanently(o)
    \/ \E c \in DOMAIN conns : processMessage(c, "table", MaxRound, MaxInFlight)
    \/ \E c \in DOMAIN conns : PlayCardStep(c)
    \/ \E c \in DOMAIN conns : ChooseTrumpStep(c)
    \/ \E c \in DOMAIN conns : DealSecondStep(c)
    \/ \E c \in DOMAIN conns : DealThirdStep(c)
    \/ \E c \in DOMAIN conns : LeaveStep(c)

SpecPause == InitRoom /\ [][NextPause]_vars

---------------------------------------------------------------------------
(* Clients that do not wait for the phases of a round *)

NextEager ==
    \/ \E c \in DOMAIN conns : processMessage(c, "eager", MaxRound, 1)
    \/ \E c \in DOMAIN conns : PlayCardStep(c)
    \/ \E c \in DOMAIN conns : ChooseTrumpStep(c)
    \/ \E c \in DOMAIN conns : DealSecondStep(c)
    \/ \E c \in DOMAIN conns : DealThirdStep(c)

SpecEager == InitGame /\ [][NextEager]_vars

---------------------------------------------------------------------------
(* Two handlers at once in the game: the resolution of a complete trick by one
   session runs beside the handlers of the others *)

NextRace ==
    \/ \E c \in DOMAIN conns : processMessage(c, "turn", MaxRound, MaxInFlight)
    \/ \E c \in DOMAIN conns : PlayCardOnlyStep(c)
    \/ \E c \in DOMAIN conns : ResolveTrickStep(c)
    \/ \E c \in DOMAIN conns : ChooseTrumpStep(c)
    \/ \E c \in DOMAIN conns : DealSecondStep(c)
    \/ \E c \in DOMAIN conns : DealThirdStep(c)

SpecRace == InitGame /\ [][NextRace]_vars

---------------------------------------------------------------------------
(* A seat that is taken over before the game begins: a player leaves, a new
   connection replaces it, and the four at the table play the round to its end *)

NextRejoin ==
    \/ \E origin \in Origins : Arrive(origin, MaxLeavers)
    \/ \E c \in DOMAIN conns : findReplacementSpot(c)
    \/ \E c \in DOMAIN conns : handleReplacement(c)
    \/ \E c \in DOMAIN conns : processMessage(c, "rejoin", MaxRound, 1)
    \/ \E c \in DOMAIN conns : PlayCardStep(c)
    \/ \E c \in DOMAIN conns : ChooseTrumpStep(c)
    \/ \E c \in DOMAIN conns : DealSecondStep(c)
    \/ \E c \in DOMAIN conns : DealThirdStep(c)
    \/ \E c \in DOMAIN conns : LeaveStep(c)

SpecRejoin == InitGame /\ [][NextRejoin]_vars

\* the same table, where the client of the player that left goes on sending
NextStale ==
    \/ \E origin \in Origins : Arrive(origin, MaxLeavers)
    \/ \E c \in DOMAIN conns : findReplacementSpot(c)
    \/ \E c \in DOMAIN conns : handleReplacement(c)
    \/ \E c \in DOMAIN conns : processMessage(c, "stale", MaxRound, 1)
    \/ \E c \in DOMAIN conns : PlayCardStep(c)
    \/ \E c \in DOMAIN conns : ChooseTrumpStep(c)
    \/ \E c \in DOMAIN conns : DealSecondStep(c)
    \/ \E c \in DOMAIN conns : DealThirdStep(c)
    \/ \E c \in DOMAIN conns : LeaveStep(c)

SpecStale == InitGame /\ [][NextStale]_vars

---------------------------------------------------------------------------
(* A vacated seat that two connections take: both pass findReplacementSpot before
   either is given the seat, and five players play the round to its end *)

NextCrowd ==
    \/ \E origin \in Origins : Arrive(origin, MaxLeavers + 1)
    \/ \E c \in DOMAIN conns : findReplacementSpot(c)
    \/ \E c \in DOMAIN conns : handleReplacement(c)
    \/ \E c \in DOMAIN conns : processMessage(c, "crowd", MaxRound, 1)
    \/ \E c \in DOMAIN conns : PlayCardStep(c)
    \/ \E c \in DOMAIN conns : ChooseTrumpStep(c)
    \/ \E c \in DOMAIN conns : DealSecondStep(c)
    \/ \E c \in DOMAIN conns : DealThirdStep(c)
    \/ \E c \in DOMAIN conns : LeaveStep(c)

SpecCrowd == InitGame /\ [][NextCrowd]_vars

---------------------------------------------------------------------------
(* Properties of the rules engine *)

\* the game, the seat and the hand of session c, and the card its message names
GameOf(c) == Rooms[conns[c].room].Game
HandOf(c) == HandOfSession(c)
SeatOf(c) == objs[conns[c].player].Index
Named(m, cd) ==
    m.shape = "map" /\ cd.Suit = m.Suit /\ cd.Rank = m.Rank /\ 2 * cd.Value <= m.ValueHalves
                    /\ m.ValueHalves < 2 * cd.Value + 2

\* the reference predicate of a legal play: (a) the seat of c is the seat at the
\* current-turn index, (b) the card that the message names is in its hand, (c) the
\* trick is empty, or the card has the suit of the trick's first card, or the hand
\* holds no card of that suit
IsLegalPlay(c) ==
    LET g == GameOf(c)
        m == conns[c].msg
    IN  /\ objs[g.Players[g.CurrentPlayerIndex + 1]].Index = SeatOf(c)
        /\ \E n \in DOMAIN HandOf(c) : Named(m, HandOf(c)[n])
        /\ \/ g.CurrentTrick = <<>>
           \/ m.Suit = g.CurrentTrick[1].Suit
           \/ \A n \in DOMAIN HandOf(c) : HandOf(c)[n].Suit # g.CurrentTrick[1].Suit

\* C1: a play_card is accepted if and only if (a) its seat is the seat at the
\* current-turn index, (b) its card is in the seat's hand and (c) the trick is
\* empty, or the card follows the suit led, or the seat holds no card of that suit.
C1_AcceptedIffLegal ==
    [][\A c \in DOMAIN conns :
          PlayCardStep(c) => (last'.res.out = "accepted" <=> IsLegalPlay(c))]_vars

\* a card of another suit than the suit led has been accepted and lies in the trick
C1_Witness_OffSuitAccepted ==
    /\ last.msg.action = "play_card"
    /\ last.res.out = "accepted"
    /\ \E r \in DOMAIN Rooms :
          LET t == Rooms[r].Game.CurrentTrick
          IN  /\ Len(t) >= 2
              /\ t[Len(t)].Suit = last.msg.Suit
              /\ t[Len(t)].Suit # t[1].Suit

\* the position of the winning card of a complete trick: the highest trump if a
\* card of the trump suit is in the trick, else the highest card of the suit led
WinningPosition(trick, trump) ==
    LET trumps == {i \in DOMAIN trick : trick[i].Suit = trump}
        led == {i \in DOMAIN trick : trick[i].Suit = trick[1].Suit}
        pool == IF trumps # {} THEN trumps ELSE led
    IN  CHOOSE i \in pool : \A j \in pool : trick[j].Value <= trick[i].Value

\* C2: the winner of every completed trick is the seat that played the highest
\* trump if a trump is in the trick, else the seat that played the highest card of
\* the suit led; it is the entry of the trick play order at the winning position.
C2_TrickWinner ==
    [][\A c \in DOMAIN conns :
          (/\ PlayCardStep(c)
           /\ last'.res.out = "accepted"
           /\ Len(GameOf(c).CurrentTrick) + 1 = Len(Rooms[conns[c].room].Players))
          => LET trick == Append(GameOf(c).CurrentTrick, PayloadCard(conns[c].msg))
                 order == Append(GameOf(c).TrickPlayOrder, conns[c].player)
                 w == WinningPosition(trick, GameOf(c).TrumpSuit)
             IN  /\ last'.res.trick = trick
                 /\ last'.res.winner = objs[order[w]].ID]_vars

\* a trick has been resolved in which a trump was played on another suit that was
\* led, with the Ace of the suit led in it
C2_Witness_TrumpBeatsAce ==
    /\ last.res.winner # 0
    /\ \E r \in DOMAIN Rooms : \E i, j \in DOMAIN last.res.trick :
          LET t == last.res.trick
          IN  /\ t[1].Suit # Rooms[r].Game.TrumpSuit
              /\ t[i].Suit = Rooms[r].Game.TrumpSuit
              /\ t[j].Suit = t[1].Suit /\ t[j].Rank = "A"

\* the other team
Opponents(team) == CHOOSE t \in Teams : t # team

\* the round points of the rules: 2 when the trump-chooser's team wins and the
\* losing team took no trick, 3 when the other team wins and the trump-chooser's
\* team took no trick, 1 otherwise
ReferencePoints(winner, trumpTeam, tricks) ==
    IF winner = trumpTeam /\ tricks[Opponents(winner)] = 0 THEN 2
    ELSE IF winner # trumpTeam /\ tricks[trumpTeam] = 0 THEN 3
    ELSE 1

\* C3: when a round ends, the winning team's round-tally grows by 2 if it is the
\* trump-chooser's team and the losers took no trick, by 3 if it is the other team
\* and the trump-chooser's team took no trick, by 1 otherwise; the losing team's
\* round-tally does not change.
C3_RoundPoints ==
    [][\A c \in DOMAIN conns :
          (PlayCardStep(c) /\ last'.res.roundWinner # "")
          => LET g == GameOf(c)
                 after == Rooms'[conns[c].room].Game
                 winner == last'.res.roundWinner
                 points == ReferencePoints(winner, objs[g.TrumpPlayer].Team, g.Scores)
             IN  /\ last'.res.points = points
                 /\ after.RoundScores[winner] = g.RoundScores[winner] + points
                 /\ after.RoundScores[Opponents(winner)] =
                        g.RoundScores[Opponents(winner)]]_vars

\* a round has ended with 3 points for the team that did not choose the trump suit
C3_Witness_ThreePoints ==
    /\ last.res.roundWinner # ""
    /\ last.res.points = 3
    /\ \E r \in DOMAIN Rooms : Rooms[r].Game.RoundScores[last.res.roundWinner] >= 3

\* rounds that ended with 2 points and with 1 point
RoundEndedWithTwo == last.res.roundWinner # "" /\ last.res.points = 2
RoundEndedWithOne == last.res.roundWinner # "" /\ last.res.points = 1

\* the team of the seat with that ID in room r
TeamOfSeat(r, id) ==
    LET o == CHOOSE o \in Range(Rooms[r].Players) : objs[o].ID = id
    IN  objs[o].Team

\* a play_card of session c that completes a trick
CompletesTrick(c) ==
    /\ PlayCardStep(c)
    /\ last'.res.out = "accepted"
    /\ Len(GameOf(c).CurrentTrick) + 1 = Len(Rooms[conns[c].room].Players)

C6_TrickPlayOrder ==
    /\ [](\A r \in DOMAIN Rooms :
            Len(Rooms[r].Game.CurrentTrick) = Len(Rooms[r].Game.TrickPlayOrder))
    /\ [][\A c \in DOMAIN conns :
            LET g == GameOf(c)
                after == Rooms'[conns[c].room].Game
            IN  PlayCardStep(c) =>
                  IF last'.res.out # "accepted"
                  THEN /\ after.CurrentTrick = g.CurrentTrick
                       /\ after.TrickPlayOrder = g.TrickPlayOrder
                  ELSE \/ /\ CompletesTrick(c)
                          /\ after.CurrentTrick = <<>>
                          /\ after.TrickPlayOrder = <<>>
                       \/ /\ Len(after.CurrentTrick) = Len(g.CurrentTrick) + 1
                          /\ Named(conns[c].msg, after.CurrentTrick[Len(after.CurrentTrick)])
                          /\ SubSeq(after.CurrentTrick, 1, Len(g.CurrentTrick)) = g.CurrentTrick
                          /\ Len(after.TrickPlayOrder) = Len(g.TrickPlayOrder) + 1
                          /\ objs[after.TrickPlayOrder[Len(after.TrickPlayOrder)]].Index = SeatOf(c)
                          /\ SubSeq(after.TrickPlayOrder, 1, Len(g.TrickPlayOrder)) =
                                g.TrickPlayOrder]_vars
    /\ [][(\A c \in DOMAIN conns : ~PlayCardStep(c)) =>
            \A r \in DOMAIN Rooms :
               /\ Rooms'[r].Game.CurrentTrick = Rooms[r].Game.CurrentTrick
               /\ Rooms'[r].Game.TrickPlayOrder = Rooms[r].Game.TrickPlayOrder]_vars

\* a trick of three cards that another seat than seat 0 has led
C6_Witness_ThreeCards ==
    \E r \in DOMAIN Rooms :
       /\ Len(Rooms[r].Game.CurrentTrick) = 3
       /\ Len(Rooms[r].Game.TrickPlayOrder) = 3
       /\ objs[Rooms[r].Game.TrickPlayOrder[1]].Index # 0
       /\ last.res.out = "accepted"

\* the message of session c names a card that lies in the current trick and is
\* in no hand any more
SentAgain(c) ==
    /\ \E i \in DOMAIN GameOf(c).CurrentTrick : Named(conns[c].msg, GameOf(c).CurrentTrick[i])
    /\ \A o \in DOMAIN objs : \A n \in DOMAIN objs[o].Hand :
          ~Named(conns[c].msg, objs[o].Hand[n])

\* C7: a play_card that is rejected leaves the rooms and every player as they
\* were: tricks, play orders, turn pointers, hands, tallies and paused flags; and a
\* play_card for a card that has been played and is in no hand is rejected.
C7_RejectedPlayChangesNothing ==
    [][\A c \in DOMAIN conns :
          PlayCardStep(c) =>
             /\ last'.res.out # "accepted" => (Rooms' = Rooms /\ objs' = objs)
             /\ SentAgain(c) => last'.res.out = "rejected"]_vars

\* a play_card for a card lying in the trick has been rejected
C7_Witness_SentAgainRejected ==
    /\ last.msg.action = "play_card"
    /\ last.res.out = "rejected"
    /\ \E r \in DOMAIN Rooms : \E i \in DOMAIN Rooms[r].Game.CurrentTrick :
          Named(last.msg, Rooms[r].Game.CurrentTrick[i])

\* rejections for each reason the handler logs
RejectedFor(error) == last.msg.action = "play_card" /\ last.res.error = error
RejectedWrongTurn == RejectedFor("it's not your turn")
RejectedInvalidPlay == RejectedFor("invalid card play")
RejectedFollowSuit ==
    /\ RejectedInvalidPlay
    /\ \E o \in DOMAIN objs : \E n \in DOMAIN objs[o].Hand : Named(last.msg, objs[o].Hand[n])
RejectedPayload == RejectedFor("Invalid card data")
RejectedSuit == RejectedFor("Invalid suit")
RejectedRank == RejectedFor("Invalid rank")
RejectedValue == RejectedFor("Invalid value for rank")
\* a play_card whose value is not a whole number has been accepted
AcceptedFraction ==
    /\ last.msg.action = "play_card"
    /\ last.res.out = "accepted"
    /\ last.msg.ValueHalves % 2 = 1

---------------------------------------------------------------------------
(* Properties of the match *)

\* the match of room r has ended: a round-tally has reached 7
MatchEnded(r) == \E t \in Teams : Rooms[r].Game.RoundScores[t] >= 7

\* C5: once a round-tally of a room has reached 7, no play_card is accepted in the
\* room and none of its tallies changes, whatever the interleaving of the handlers.
C5_NothingAfterMatchEnd ==
    /\ [][\A c \in DOMAIN conns :
            (PlayCardStep(c) /\ MatchEnded(conns[c].room)) => last'.res.out # "accepted"]_vars
    /\ [][\A r \in DOMAIN Rooms :
            MatchEnded(r) => /\ Rooms'[r].Game.Scores = Rooms[r].Game.Scores
                             /\ Rooms'[r].Game.RoundScores = Rooms[r].Game.RoundScores]_vars

\* a play_card has been accepted in a room whose match had ended: its card lies as
\* a fifth card in the trick that ended the match
PlayedAfterMatchEnd ==
    /\ last.msg.action = "play_card"
    /\ last.res.out = "accepted"
    /\ \E r \in DOMAIN Rooms :
          /\ MatchEnded(r)
          /\ Rooms[r].Game.IsGameOver
          /\ Len(Rooms[r].Game.CurrentTrick) > Len(Rooms[r].Players)

\* the match ends exactly when a round-tally reaches 7: the paused flag is set by
\* the play that brings a round-tally to 7, and by no play before
MatchEndsAtSeven ==
    [][\A c \in DOMAIN conns :
          (PlayCardStep(c) /\ ~MatchEnded(conns[c].room)) =>
             (last'.res.gameOver <=> \E t \in Teams :
                                        Rooms'[conns[c].room].Game.RoundScores[t] >= 7)]_vars

---------------------------------------------------------------------------
(* Properties of the seats *)

\* the active seats of room r: the players of room.Players
ActiveSeats(r) == Rooms[r].Players

\* C8: a room never has more than 4 active seats.
C8_AtMostFourSeats == \A r \in DOMAIN Rooms : Len(ActiveSeats(r)) <= 4

\* C9: the seat indices of the active seats of a room are pairwise distinct and lie
\* in 0..3.
C9_DistinctSeatIndices ==
    \A r \in DOMAIN Rooms : \A i, j \in DOMAIN ActiveSeats(r) :
       /\ objs[ActiveSeats(r)[i]].Index \in 0..3
       /\ i # j => objs[ActiveSeats(r)[i]].Index # objs[ActiveSeats(r)[j]].Index

\* the index of a seat never changes: of no player, and of no player that takes
\* the seat (the ID) of another
SeatIndexStable ==
    [][/\ \A o \in DOMAIN objs : objs'[o].Index = objs[o].Index
       /\ \A o \in DOMAIN objs : \A n \in DOMAIN objs' :
             objs'[n].ID = objs[o].ID => objs'[n].Index = objs[o].Index]_vars

\* the team that the parity of a seat index gives
TeamOfIndex(index) == IF index % 2 = 0 THEN "team2" ELSE "team1"

\* C10: the team of every seat, active or saved, is given by the parity of its
\* index (even: team2, odd: team1), and the team of a seat never changes: of no
\* player, and of no player that takes the seat of another.
C10_TeamByParity ==
    /\ [](/\ \A o \in DOMAIN objs : objs[o].Team = TeamOfIndex(objs[o].Index)
          /\ \A r \in DOMAIN Rooms : \A sp \in Rooms[r].SavedPlayers :
                sp.Team = TeamOfIndex(sp.Index))
    /\ [][/\ \A o \in DOMAIN objs : objs'[o].Team = objs[o].Team
          /\ \A o \in DOMAIN objs : \A n \in DOMAIN objs' :
                objs'[n].ID = objs[o].ID => objs'[n].Team = objs[o].Team]_vars

\* a new connection has taken the seat of a player that left, and another has been
\* seated after a disconnected player expired
C10_Witness_Replaced ==
    \E r \in DOMAIN Rooms : \E i, j \in DOMAIN ActiveSeats(r) :
       /\ objs[ActiveSeats(r)[i]].Conn > RoomSize
       /\ objs[ActiveSeats(r)[i]].ID <= RoomSize
       /\ objs[ActiveSeats(r)[j]].ID > RoomSize

---------------------------------------------------------------------------
(* Properties of the paused flag *)

\* the paused flag of the game of room r
Paused(r) == Rooms[r].Game.IsGameOver

\* session c takes a step of the handler of a player-initiated action
PlayerActionStep(c) ==
    \/ PlayCardStep(c)
    \/ ChooseTrumpStep(c)
    \/ DealSecondStep(c)
    \/ DealThirdStep(c)
    \/ LeaveStep(c)

\* C11: while the paused flag of a game is true, no step of a play_card, a
\* choose_trump or a leave_game changes a room or a player, also when the handler
\* had passed its pause check before another session's leave_game set the flag.
C11_PausedBlocksActions ==
    [][\A c \in DOMAIN conns :
          (PlayerActionStep(c) /\ Paused(conns[c].room)) =>
             (Rooms' = Rooms /\ objs' = objs)]_vars

\* a card has been played into the trick of a game that a leave_game had paused
\* and that no replacement has resumed
PlayedWhilePaused ==
    /\ last.msg.action = "play_card"
    /\ last.res.out = "accepted"
    /\ \E r \in DOMAIN Rooms :
          /\ Paused(r)
          /\ Rooms[r].SavedPlayers # {}
          /\ Rooms[r].Game.CurrentTrick # <<>>
          /\ Named(last.msg, Rooms[r].Game.CurrentTrick[Len(Rooms[r].Game.CurrentTrick)])

\* C12: the paused flag of a game goes from true to false only in a step of
\* handleReplacement for a seat of its room that brings the room to 4 active seats;
\* no play, trump choice, deal, leave, disconnection, reconnection, expiry, seating
\* or round restart clears it.
C12_ClearedOnlyByReplacement ==
    [][\A r \in DOMAIN Rooms :
          (Paused(r) /\ ~Rooms'[r].Game.IsGameOver) =>
             /\ \E c \in DOMAIN conns : handleReplacement(c) /\ conns[c].room = r
             /\ Len(Rooms'[r].Players) = 4]_vars

\* a replacement has brought a paused room back to 4 active seats and its game is
\* not paused any more
C12_Witness_Resumed ==
    \E r \in DOMAIN Rooms : \E c \in DOMAIN conns :
       /\ c > RoomSize
       /\ conns[c].pc = "idle"
       /\ conns[c].player \in Range(Rooms[r].Players)
       /\ conns[c].saved.PlayerID = objs[conns[c].player].ID
       /\ Len(Rooms[r].Players) = 4
       /\ ~Paused(r)

\* a round has been restarted in a paused game, which stays paused
RestartedWhilePaused ==
    \E r \in DOMAIN Rooms :
       /\ Paused(r)
       /\ Rooms[r].SavedPlayers # {}
       /\ Rooms[r].Game.CurrentRound > 1

\* a replacement has brought a paused room to 3 active seats, and the game stays
\* paused
ReplacedWithoutResuming ==
    \E r \in DOMAIN Rooms : \E c \in DOMAIN conns :
       /\ c > RoomSize
       /\ conns[c].player \in Range(Rooms[r].Players)
       /\ conns[c].saved.PlayerID = objs[conns[c].player].ID
       /\ Len(Rooms[r].Players) = 3
       /\ Paused(r)

\* a player has been seated in a new room while the game of another is paused
SeatedWhilePaused ==
    \E r, q \in DOMAIN Rooms :
       /\ Paused(r)
       /\ \E o \in Range(Rooms[q].Players) : objs[o].ID > RoomSize

---------------------------------------------------------------------------
(* Properties of leaving, replacement, reconnection and expiry *)

\* the saved-seat entries of room r for seat id
SavedFor(rm, id) == {sp \in rm.SavedPlayers : sp.PlayerID = id}

\* the active seats of a room are in the order of their indices
OrderedByIndex(rm, h) ==
    \A i, j \in DOMAIN rm.Players : i < j => h[rm.Players[i]].Index <= h[rm.Players[j]].Index

SeatOfReconnection(c) ==
    \E r \in DOMAIN Rooms :
       IndexOfID(objs, Rooms[r].Players, objs[conns[c].player].ID) >= 0

\* C14: a reconnection to a disconnected seat completes: the seat is connected
\* again with its id, index, team and hand, the handler returns to the read loop,
\* and the registry lock is free for the other sessions afterwards.
C14_ReconnectionCompletes ==
    [][\A c \in DOMAIN conns :
          (handleReconnectingPlayer(c) /\ SeatOfReconnection(c)) =>
             LET o == conns[c].player
             IN  /\ objs'[o] = [objs[o] EXCEPT !.Connected = TRUE, !.Conn = c]
                 /\ conns'[c].pc = "idle"
                 /\ mu' = "free"]_vars

\* a reconnection has made the seat connected again, its handler waits for the
\* registry lock that it holds itself, and a session that has since read a
\* leave_game waits for the lock as well
ReconnectionHoldsLock ==
    /\ mu = "stuck"
    /\ \E c, d \in DOMAIN conns :
          /\ c # d
          /\ conns[c].pc = "blocked"
          /\ objs[conns[c].player].Connected
          /\ objs[conns[c].player].Conn = c
          /\ conns[d].pc = "blocked"

\* player o is a seat of a room and is disconnected
Disconnected(o) ==
    /\ o \in DOMAIN objs
    /\ ~objs[o].Connected
    /\ \E r \in DOMAIN Rooms : o \in Range(Rooms[r].Players)

\* C15: a seat whose connection fails becomes disconnected with an expiry pending;
\* when the expiry check runs, the seat is removed from the active list of its room
\* if it is still disconnected and no room is changed if a reconnection has made it
\* connected again; and a disconnected seat does not stay disconnected for ever.
C15_ExpiryRechecksLiveness ==
    /\ [][\A c \in DOMAIN conns :
            unregisterPlayer(c) =>
               ~objs'[conns[c].player].Connected /\ conns[c].player \in timers']_vars
    /\ [](\A o \in DOMAIN objs : Disconnected(o) => o \in timers)
    /\ [][\A o \in DOMAIN objs :
            removePlayerPermanently(o) =>
               IF objs[o].Connected
               THEN Rooms' = Rooms
               ELSE \A r \in DOMAIN Rooms :
                       /\ o \notin Range(Rooms'[r].Players)
                       /\ Rooms'[r].Players = RemoveByID(objs, Rooms[r].Players, objs[o].ID)
                       /\ Rooms'[r].Game = Rooms[r].Game]_vars
    /\ \A o \in 1..MaxConns : Disconnected(o) ~> ~Disconnected(o)

\* the expiry check of a seat has run after a reconnection made the seat connected
\* again: the seat is still in the active list of its room
C15_Witness_ReconnectedInTime ==
    \E r \in DOMAIN Rooms : \E o \in Range(Rooms[r].Players) :
       /\ objs[o].Connected
       /\ objs[o].Conn > RoomSize
       /\ conns[o].pc = "closed"
       /\ o \notin timers

\* the expiry check of a seat that was still disconnected has run: the seat is in
\* no active list
ExpiredSeatRemoved ==
    \E o \in DOMAIN objs :
       /\ ~objs[o].Connected
       /\ o \notin timers
       /\ \A r \in DOMAIN Rooms : o \notin Range(Rooms[r].Players)

---------------------------------------------------------------------------
(* Properties of the routing of new connections *)

\* the saved leaving seats of all rooms
LeavingSeats ==
    {sp \in UNION {Rooms[r].SavedPlayers : r \in DOMAIN Rooms} : sp.IsLeaving}

\* the disconnected seats of all rooms whose connection had the origin of session c
DisconnectedSeats(c) ==
    {o \in UNION {Range(Rooms[r].Players) : r \in DOMAIN Rooms} :
        ~objs[o].Connected /\ conns[objs[o].Conn].origin = conns[c].origin}

\* C16: a new connection starts with the lookup of a saved leaving seat; if any room
\* holds one at the time of the lookup the connection goes on to the replacement of
\* such a seat, else to the lookup of a disconnected seat of its origin; if there
\* is one it goes on to the reconnection, else to normal seating. A new seat is
\* given only to a connection that went through both lookups and found nothing.
C16_RoutingPriority ==
    [][/\ \A c \in DOMAIN conns' : c \notin DOMAIN conns => conns'[c].pc = "lookup"
       /\ \A c \in DOMAIN conns :
            /\ (conns[c].pc = "lookup" /\ conns'[c].pc # "lookup") =>
                  IF LeavingSeats # {}
                  THEN /\ conns'[c].pc = "replace"
                       /\ conns'[c].saved \in LeavingSeats
                       /\ conns'[c].room = conns'[c].saved.RoomID
                  ELSE conns'[c].pc = "existing"
            /\ (conns[c].pc = "existing" /\ conns'[c].pc # "existing") =>
                  IF DisconnectedSeats(c) # {}
                  THEN /\ conns'[c].pc = "reconnect"
                       /\ conns'[c].player \in DisconnectedSeats(c)
                  ELSE conns'[c].pc = "seat"
            /\ (conns[c].pc # "replace" /\ conns'[c].pc = "replace") => conns[c].pc = "lookup"
            /\ (conns[c].pc # "existing" /\ conns'[c].pc = "existing") => conns[c].pc = "lookup"
            /\ (conns[c].pc # "reconnect" /\ conns'[c].pc = "reconnect") =>
                  conns[c].pc = "existing"
            /\ (conns[c].pc # "seat" /\ conns'[c].pc = "seat") => conns[c].pc = "existing"
            /\ (conns[c].player = Nil /\ conns'[c].player # Nil /\ conns'[c].pc = "idle") =>
                  \/ conns[c].pc = "replace" /\ objs'[conns'[c].player].ID = conns[c].saved.PlayerID
                  \/ conns[c].pc = "seat" /\ objs'[conns'[c].player].ID = playerCounter + 1]_vars

\* a connection has been routed to the replacement of a saved leaving seat while a
\* disconnected seat of its own origin was waiting for a reconnection
C16_Witness_ReplacementFirst ==
    \E c \in DOMAIN conns :
       /\ conns[c].pc = "replace"
       /\ conns[c].saved \in LeavingSeats
       /\ DisconnectedSeats(c) # {}

\* connections routed to a reconnection and to normal seating
RoutedToReconnection ==
    \E c \in DOMAIN conns : conns[c].pc = "reconnect" /\ LeavingSeats = {}
RoutedToSeating ==
    \E c \in DOMAIN conns : conns[c].pc = "seat" /\ LeavingSeats = {} /\ DisconnectedSeats(c) = {}

---------------------------------------------------------------------------
(* Properties of the registry lock *)

\* the step is taken by session c inside a critical section of game.Manager.Mu.Lock:
\* handleReplacement, handleReconnectingPlayer, the seating part of registerPlayer
\* and handlePlayerLeave are the functions that take the lock in write form
HoldsWriteLock(c) ==
    \/ handleReplacement(c)
    \/ handleReconnectingPlayer(c)
    \/ registerPlayer(c, 1..NumShuffles)
    \/ LeaveStep(c) /\ mu = "free"

\* session c is between two steps of a handler that has begun to change its room:
\* the dealing of case "choose_trump" sleeps between its batches
InsideMutation(c) == conns[c].pc \in {"deal2", "deal3"}

\* C17: every step that changes a room or a player is taken by a session that holds
\* the registry lock in write form, and no step changes a room while another
\* session is in the middle of a mutation of that room.
C17_MutationsUnderWriteLock ==
    /\ [][(Rooms' # Rooms \/ objs' # objs) =>
            \E c \in DOMAIN conns : HoldsWriteLock(c)]_vars
    /\ [][\A r \in DOMAIN Rooms : Rooms'[r] # Rooms[r] =>
            \A c, d \in DOMAIN conns :
               (c # d /\ InsideMutation(c) /\ InsideMutation(d)) =>
                  (conns[c].room # r \/ conns[d].room # r)]_vars

\* steps that change a room or a player without the lock: a card has been played,
\* a seat has been marked disconnected, a seat has been removed on expiry
UnlockedPlay == last.msg.action = "play_card" /\ last.res.out = "accepted"
UnlockedDisconnect == \E o \in timers : ~objs[o].Connected
UnlockedExpiry == ExpiredSeatRemoved /\ ~crashed

\* the JSON form of a *Player: Conn is never written ("-"), Hand is left out when
\* it is nil or empty (omitempty): <<>> stands for the absent field
PlayerJSON(p, hand) ==
    [ID |-> p.ID, Team |-> p.Team, Hand |-> hand, Connected |-> p.Connected,
     Index |-> p.Index]

\* the player list of a game_update with the hand of every player left in it
filteredPlayersUnfiltered(rm, h, recipient) ==
    [i \in DOMAIN rm.Game.Players |->
        PlayerJSON(h[rm.Game.Players[i]], h[rm.Game.Players[i]].Hand)]

\* broadcastGameUpdate: the copies of room.Game.Players made for one recipient,
\* playerCopy.Hand = nil where p.ID != recipient.ID
filteredPlayers(rm, h, recipient) ==
    [i \in DOMAIN rm.Game.Players |->
        LET p == h[rm.Game.Players[i]]
        IN  PlayerJSON(p, IF p.ID # h[recipient].ID THEN <<>> ELSE p.Hand)]

\* broadcastGameUpdate: the payload of the game_update written to one recipient
gameUpdatePayload(rm, h, recipient) ==
    [players |-> filteredPlayers(rm, h, recipient),
     trump_player_id |-> h[rm.Game.TrumpPlayer].ID,
     trump_suit |-> rm.Game.TrumpSuit,
     current_trick |-> rm.Game.CurrentTrick,
     scores |-> rm.Game.Scores,
     current_player_idx |-> rm.Game.CurrentPlayerIndex]

\* sendJoinMessage: the payload of the join_room written to the new player o,
\* "players": room.Players as they are marshalled
joinRoomPayload(rm, h, o) ==
    [players |-> [i \in DOMAIN rm.Players |->
                    PlayerJSON(h[rm.Players[i]], h[rm.Players[i]].Hand)],
     your_id |-> h[o].ID]

\* the connections that a broadcast to the players of a room writes to
Recipients(rm, h) == {h[p].Conn : p \in Range(rm.Players)}
\* sendJoinMessage(newPlayer, room): player.Conn.WriteJSON
sendJoinMessage(c) == {c}
\* broadcastReplacementNotification, broadcastGameStateAfterReplacement
broadcastReplacementNotification(rm, h) == Recipients(rm, h)
\* broadcastLeaveNotification: the players of the room that are connected
broadcastLeaveNotification(rm, h) ==
    {h[p].Conn : p \in {q \in Range(rm.Players) : h[q].Connected}}
\* broadcastConnectionStatus(player, false): in a room that has a player with the
\* ID of o (the first in map iteration order), the players with another ID; no
\* one when no room has
broadcastConnectionStatus(h, o) ==
    LET hit == {r \in DOMAIN Rooms : IndexOfID(h, Rooms[r].Players, h[o].ID) >= 0}
    IN  IF hit = {} THEN {{}}
        ELSE {{h[q].Conn : q \in {p \in Range(Rooms[r].Players) : h[p].ID # h[o].ID}} :
                 r \in hit}
\* broadcastGameUpdate, which writes inside its RLock
broadcastGameUpdate(rm, h) == Recipients(rm, h)

\* the connections that the step of session c writes to while the session holds
\* the registry lock: in write form in registerPlayer, handleReplacement and
\* handlePlayerLeave, in read form in the broadcastGameUpdate that ends the dealing
\* of case "choose_trump" and follows a card played into an incomplete trick
WritesUnderLock(c) ==
    LET r == conns[c].room
    IN  IF registerPlayer(c, 1..NumShuffles) THEN sendJoinMessage(c)
        ELSE IF handleReplacement(c)
        THEN broadcastReplacementNotification(Rooms'[r], objs')
        ELSE IF LeaveStep(c) /\ mu = "free"
        THEN broadcastLeaveNotification(Rooms'[r], objs')
        ELSE IF DealThirdStep(c) /\ mu = "free" /\ conns'[c].pc = "idle"
        THEN broadcastGameUpdate(Rooms'[r], objs')
        ELSE IF /\ PlayCardStep(c) /\ mu = "free" /\ last'.res.out = "accepted"
                /\ Len(Rooms'[r].Game.CurrentTrick) = Len(Rooms[r].Game.CurrentTrick) + 1
                /\ Len(Rooms'[r].Game.CurrentTrick) < Len(Rooms'[r].Players)
        THEN broadcastGameUpdate(Rooms'[r], objs')
        ELSE {}

\* C18: no step writes to the connection of a seat while its session holds the
\* registry lock in read or in write form.
C18_NoWriteUnderLock ==
    [][\A c \in DOMAIN conns : WritesUnderLock(c) = {}]_vars

---------------------------------------------------------------------------
(* Properties of the phases of a round *)

\* the trump suit of the round has been chosen and the three batches that follow
\* the choice have been dealt: the deck is empty
DealingDone(g) == g.TrumpSuit # "" /\ g.Deck = <<>>

\* C19: no play_card is accepted into a trick before the trump suit of the round
\* has been chosen and the three remainder batches have been dealt.
C19_PhasesInOrder ==
    [][\A c \in DOMAIN conns :
          (PlayCardStep(c) /\ last'.res.out = "accepted") => DealingDone(GameOf(c))]_vars

\* a card lies in the trick of a game whose trump suit has not been chosen
PlayedBeforeTrump ==
    /\ last.msg.action = "play_card"
    /\ last.res.out = "accepted"
    /\ \E r \in DOMAIN Rooms :
          /\ Rooms[r].Game.TrumpSuit = ""
          /\ Rooms[r].Game.CurrentTrick # <<>>
          /\ Rooms[r].Game.CurrentRound = 1

---------------------------------------------------------------------------
(* Properties of the choice of the trump suit *)

\* the player of session c is the trump player of the game of its room
IsTrumpChooser(c) ==
    /\ GameOf(c).TrumpPlayer # Nil
    /\ objs[conns[c].player].ID = objs[GameOf(c).TrumpPlayer].ID

\* C20: a choose_trump sent by a seat that is not the trump player of the game is
\* rejected, and the step leaves the trump suit, the deck, the hand of every player
\* and the turn pointer of the game as they were.
C20_NonChooserRejected ==
    [][\A c \in DOMAIN conns :
          (ChooseTrumpStep(c) /\ ~IsTrumpChooser(c)) =>
              /\ last'.res.out = "rejected"
              /\ GameOf(c)'.TrumpSuit = GameOf(c).TrumpSuit
              /\ GameOf(c)'.Deck = GameOf(c).Deck
              /\ GameOf(c)'.CurrentPlayerIndex = GameOf(c).CurrentPlayerIndex
              /\ \A o \in DOMAIN objs : objs'[o].Hand = objs[o].Hand]_vars

\* a choose_trump that names a suit has been turned down because its sender is not
\* the trump player, while the game still waits for its trump suit
C20_Witness_NonChooserTurnedDown ==
    /\ last.msg.action = "choose_trump"
    /\ last.msg.shape = "string"
    /\ last.res.out = "rejected"
    /\ last.res.error = "Only the trump player can choose the trump suit"
    /\ \E r \in DOMAIN Rooms : Rooms[r].Game.TrumpSuit = "" /\ Rooms[r].Game.Deck # <<>>

---------------------------------------------------------------------------
(* Properties of the deal *)

\* the cards that the dealing step session c is about to take leaves the deck with:
\* 5 for each player of the room but the trump player in the first batch, 4 for each
\* player in the second and the third; 0 when c is not at a dealing step
CardsToDeal(c) ==
    LET rm == Rooms[conns[c].room]
    IN  IF conns[c].pc = "checked" /\ conns[c].msg.action = "choose_trump"
           /\ conns[c].msg.shape = "string" /\ IsTrumpChooser(c)
        THEN 5 * Cardinality({i \in DOMAIN rm.Players :
                                 objs[rm.Players[i]].ID # objs[rm.Game.TrumpPlayer].ID})
        ELSE IF conns[c].pc \in {"deal2", "deal3"} THEN 4 * Len(rm.Players)
        ELSE 0

\* C21: whenever a dealing step of choose_trump takes cards from the deck, the deck
\* holds at least the cards the step takes, also for a choose_trump that is sent
\* again after the three batches have been dealt.
C21_NoDeckUnderflow ==
    [][\A c \in DOMAIN conns :
          (ChooseTrumpStep(c) \/ DealSecondStep(c) \/ DealThirdStep(c)) =>
              Len(GameOf(c).Deck) >= CardsToDeal(c)]_vars

\* the handler of a choose_trump of the trump player has ended in the panic of
\* room.Game.Deck[5:] on a deck that the earlier deal has emptied
DealtFromEmptyDeck ==
    /\ last.msg.action = "choose_trump"
    /\ last.res.out = "accepted"
    /\ last.res.panic
    /\ \E c \in DOMAIN conns :
          /\ conns[c].pc = "panicked"
          /\ GameOf(c).Deck = <<>>
          /\ \E o \in Range(Rooms[conns[c].room].Players) : objs[o].Hand = <<>>

---------------------------------------------------------------------------
(* Properties of the game_update snapshot *)

\* other hands than the ones the players hold: none, the same cards in reverse
\* order, one card more
OtherHands == 1..3
AlteredHand(hand, k) ==
    IF k = 1 THEN <<>>
    ELSE IF k = 2 THEN [i \in DOMAIN hand |-> hand[Len(hand) + 1 - i]]
    ELSE hand \o <<NewDeck[1]>>
\* the heap with the hand of every player object altered but the hands of the
\* objects that carry the ID of the recipient
WithOtherHands(h, recipient, k) ==
    [o \in DOMAIN h |->
        IF h[o].ID = h[recipient].ID THEN h[o]
        ELSE [h[o] EXCEPT !.Hand = AlteredHand(@, k)]]

\* the rooms whose game has started: broadcastGameUpdate reads Game.TrumpPlayer.ID
StartedRooms == {r \in DOMAIN Rooms : Rooms[r].Game.TrumpPlayer # Nil}

\* C22: the game_update that broadcastGameUpdate builds for a recipient of a room
\* carries a hand only in the entry with the ID of the recipient, that hand is the
\* hand of the player of that ID in the game, and the message is the same when the
\* hands of the players of other IDs are different ones.
C22_OwnHandOnly ==
    \A r \in StartedRooms : \A recipient \in Range(Rooms[r].Players) :
        LET upd == gameUpdatePayload(Rooms[r], objs, recipient)
        IN  /\ \A i \in DOMAIN upd.players :
                  /\ upd.players[i].ID # objs[recipient].ID => upd.players[i].Hand = <<>>
                  /\ upd.players[i].ID = objs[recipient].ID =>
                        upd.players[i].Hand = objs[Rooms[r].Game.Players[i]].Hand
            /\ \A k \in OtherHands :
                  gameUpdatePayload(Rooms[r], WithOtherHands(objs, recipient, k), recipient)
                      = upd

\* a card was played into an incomplete trick, so that a game_update went to every
\* player of the room, while the recipients hold cards and the hands differ
C22_Witness_UpdateSent ==
    /\ last.msg.action = "play_card"
    /\ last.res.out = "accepted"
    /\ \E r \in StartedRooms :
          /\ Rooms[r].Game.CurrentTrick # <<>>
          /\ Len(Rooms[r].Players) = RoomSize
          /\ \A o \in Range(Rooms[r].Players) : objs[o].Hand # <<>>
          /\ \E o1, o2 \in Range(Rooms[r].Players) : objs[o1].Hand # objs[o2].Hand

\* the hands of the players of a room are pairwise disjoint and together the cards
\* of the 52-card deck, 13 in each hand
FullDeal(rm, h) ==
    /\ Len(rm.Players) = RoomSize
    /\ \A o \in Range(rm.Players) : Len(h[o].Hand) = 13
    /\ \A i, j \in DOMAIN rm.Players :
          i # j => Range(h[rm.Players[i]].Hand) \cap Range(h[rm.Players[j]].Hand) = {}
    /\ \A o \in Range(rm.Players) : Cardinality(Range(h[o].Hand)) = 13
    /\ UNION {Range(h[o].Hand) : o \in Range(rm.Players)} = Range(NewDeck)

\* C23: when the third batch after choose_trump has been dealt, each of the 4 seats
\* holds exactly 13 cards, the deck is empty, and the four hands are pairwise
\* disjoint and together the 52-card deck.
C23_DealCompletes ==
    [][\A c \in DOMAIN conns :
          (DealThirdStep(c) /\ conns'[c].pc = "idle") =>
              /\ GameOf(c)'.Deck = <<>>
              /\ FullDeal(Rooms'[conns[c].room], objs')]_vars

\* the three batches have been dealt on top of a card that the trump player played
\* before it chose the trump suit: the card lies in the trick, the turn is with the
\* trump player, which holds 12 cards
ShortHandAfterDeal ==
    \E r \in DOMAIN Rooms :
        /\ Rooms[r].Game.Deck = <<>>
        /\ Rooms[r].Game.TrumpSuit # ""
        /\ Rooms[r].Game.Scores = NoScores
        /\ Rooms[r].Game.CurrentRound = 1
        /\ Len(Rooms[r].Game.CurrentTrick) = 1
        /\ \E o \in Range(Rooms[r].Players) :
              /\ o = Rooms[r].Game.TrumpPlayer
              /\ Rooms[r].Game.CurrentPlayerIndex = objs[o].Index
              /\ Len(objs[o].Hand) = 12

---------------------------------------------------------------------------
(* Properties of the lottery of the trump player *)

\* the deck that the lottery loop of DealCards deals from when initializeGame and
\* DealCards both shuffle with outcome kInit
LotteryDeck(kInit) == ShuffleDeck(ShuffleDeck(NewDeck, kInit), kInit)

\* the room and the heap are what the lottery over the deck of outcome kInit and
\* the fresh deck of outcome kDeal leave: the trump player is the player at
\* position (k mod 4) of the room for the first Ace at 0-based position k, it
\* holds the first 5 cards of the fresh deck, the deck is the fresh deck without
\* them, and the others hold the cards the round-robin deal gave them before the Ace
LotteryOutcome(rm, h, kInit, kDeal) ==
    LET deck == LotteryDeck(kInit)
        k == FirstAce(deck) - 1
        fresh == ShuffleDeck(NewDeck, kDeal)
        tp == rm.Players[(k % RoomSize) + 1]
    IN  /\ Len(rm.Players) = RoomSize
        /\ rm.Game.TrumpPlayer = tp
        /\ h[tp].Index = k % RoomSize
        /\ Range(fresh) = Range(NewDeck)
        /\ Len(rm.Game.Deck) = 52 - 5
        /\ rm.Game.Deck = Drop(fresh, 5)
        /\ h[tp].Hand = Take(fresh, 5)
        /\ \A pos \in DOMAIN rm.Players :
              rm.Players[pos] # tp =>
                  h[rm.Players[pos]].Hand = LotteryCards(deck, k, RoomSize, pos, 1)

\* C24: the lottery that starts the game of a room deals single cards round-robin
\* from seat 0 and ends without running out of cards: the trump player is the seat
\* at position (k mod 4) for the first Ace at 0-based position k of the shuffled
\* deck, the deck that is left is a fresh 52-card deck without its first 5 cards,
\* and the trump player holds exactly those 5.
C24_LotteryByFirstAce ==
    [][\A c \in DOMAIN conns :
          (registerPlayer(c, 1..NumLotteryShuffles)
              /\ Len(Rooms'[1].Players) # Len(Rooms[1].Players)
              /\ Len(Rooms[1].Players) = RoomSize - 1) =>
              \E kInit, kDeal \in 1..NumLotteryShuffles :
                  LotteryOutcome(Rooms'[1], objs', kInit, kDeal)]_vars

\* the game has been started by a lottery whose first Ace was the 49th card of the
\* deck: the trump player is seat 0 and each other seat holds 12 cards of the lottery
C24_Witness_LastAce ==
    /\ Rooms[1].Game.TrumpPlayer # Nil
    /\ objs[Rooms[1].Game.TrumpPlayer].Index = 0
    /\ Len(objs[Rooms[1].Game.TrumpPlayer].Hand) = 5
    /\ Len(Rooms[1].Game.Deck) = 47
    /\ \A o \in Range(Rooms[1].Players) :
          o # Rooms[1].Game.TrumpPlayer => Len(objs[o].Hand) = 12

\* the trump player of a started game is each of the four seats
LotterySeat(i) ==
    /\ Rooms[1].Game.TrumpPlayer # Nil
    /\ objs[Rooms[1].Game.TrumpPlayer].Index = i
LotterySeatZero == LotterySeat(0)
LotterySeatOne == LotterySeat(1)
LotterySeatTwo == LotterySeat(2)
LotterySeatThree == LotterySeat(3)

\* C25: once the game of a room has been started by the lottery, no step that
\* seats, replaces, reconnects, disconnects or removes a player runs the lottery
\* again: the trump player, the deck and the hands of the players of the room stay
\* as they are.
C25_LotteryRunsOnce ==
    [][\A r \in DOMAIN Rooms :
          (/\ Rooms[r].Game.TrumpPlayer # Nil
           /\ \E c \in DOMAIN conns :
                 \/ registerPlayer(c, 1..NumShuffles)
                 \/ handleReplacement(c)
                 \/ handleReconnectingPlayer(c)
                 \/ unregisterPlayer(c)
                 \/ \E o \in DOMAIN objs : removePlayerPermanently(o)) =>
              /\ Rooms'[r].Game.TrumpPlayer = Rooms[r].Game.TrumpPlayer
              /\ Rooms'[r].Game.Deck = Rooms[r].Game.Deck
              /\ \A o \in Range(Rooms[r].Players) : objs'[o].Hand = objs[o].Hand]_vars

\* a player that took the seat of an expired one by registerPlayer holds cards:
\* initializeGame has dealt to the room a second time
LotteryRunAgain ==
    \E r \in DOMAIN Rooms : \E o \in Range(Rooms[r].Players) :
        /\ objs[o].ID > RoomSize
        /\ objs[o].Hand # <<>>
        /\ \A sp \in Rooms[r].SavedPlayers : sp.PlayerID # objs[o].ID
        /\ Len(Rooms[r].Players) = RoomSize

---------------------------------------------------------------------------
(* Properties of the end of a round *)

\* the step of session c ends a round and not the match
EndsRound(c) ==
    /\ PlayCardStep(c)
    /\ last'.res.out = "accepted"
    /\ last'.res.roundWinner # ""
    /\ ~last'.res.gameOver
    /\ ~last'.res.panic

\* the players of a room with the ID of the trump player of its game
ChooserSeats(rm, h) == {o \in Range(rm.Players) : h[o].ID = h[rm.Game.TrumpPlayer].ID}

\* C26: a round end that is not a match end resets the trick-tally of both teams
\* to 0, empties the current trick and the trick play order, adds exactly 1 to the
\* round counter, leaves every seat but the trump player's with an empty hand and
\* the trump player's with exactly the first 5 cards of a fresh 52-card deck, and
\* keeps the round-tallies as they are after the points of the round were added.
C26_RoundEndResets ==
    [][\A c \in DOMAIN conns : EndsRound(c) =>
          LET g == GameOf(c)
              rm1 == Rooms'[conns[c].room]
              g1 == rm1.Game
          IN  /\ g1.Scores = NoScores
              /\ g1.CurrentTrick = <<>>
              /\ g1.TrickPlayOrder = <<>>
              /\ g1.CurrentRound = g.CurrentRound + 1
              /\ g1.RoundScores =
                    [g.RoundScores EXCEPT ![last'.res.roundWinner] = @ + last'.res.points]
              /\ \E kDeal \in 1..NumShuffles :
                    /\ g1.Deck = Drop(ShuffleDeck(NewDeck, kDeal), 5)
                    /\ \A o \in Range(rm1.Players) :
                          objs'[o].Hand = IF o \in ChooserSeats(rm1, objs')
                                          THEN Take(ShuffleDeck(NewDeck, kDeal), 5)
                                          ELSE <<>>
              /\ ChooserSeats(rm1, objs') # {}]_vars

\* a round has ended and the seat of the trump player holds no card: the 5 cards
\* went to the player object of the one that left that seat
ChooserSeatEmptyHanded ==
    /\ last.res.roundWinner # ""
    /\ ~last.res.gameOver
    /\ \E r \in DOMAIN Rooms :
          /\ Rooms[r].Game.CurrentRound = 2
          /\ Len(Rooms[r].Players) = RoomSize
          /\ \A o \in Range(Rooms[r].Players) : objs[o].Hand = <<>>
          /\ Rooms[r].Game.TrumpPlayer \notin Range(Rooms[r].Players)
          /\ Len(objs[Rooms[r].Game.TrumpPlayer].Hand) >= 5

\* C27: at a round end the trump player of the next round is the seat after the
\* trump player of the round (index + 1 mod 4) if and only if the team that did
\* not hold trump won the round; if the trump player's team won, the seat stays
\* the trump player; and after a rotation the new trump player belongs to the team
\* that won the round.
C27_RotationOnLoss ==
    [][\A c \in DOMAIN conns : EndsRound(c) =>
          LET old == objs[GameOf(c).TrumpPlayer]
              new == objs'[GameOf(c)'.TrumpPlayer]
              lost == last'.res.roundWinner # old.Team
          IN  /\ lost <=> new.Index = (old.Index + 1) % RoomSize
              /\ ~lost => new.Index = old.Index /\ new.ID = old.ID
              /\ lost => new.Team = last'.res.roundWinner]_vars

\* a round has ended that the team without trump won with 3 points, and the trump
\* player of the next round belongs to the winning team
RotatedToWinners ==
    /\ last.res.roundWinner # ""
    /\ ~last.res.gameOver
    /\ last.res.points = 3
    /\ \E r \in DOMAIN Rooms :
          /\ Rooms[r].Game.CurrentRound > 1
          /\ objs[Rooms[r].Game.TrumpPlayer].Team = last.res.roundWinner

\* a round has ended that the team without trump won with 3 points, and the trump
\* player of the next round is a player of the team that lost: the rotation went
\* from one holder of a seat to the other
RotatedWithinSeat ==
    /\ last.res.roundWinner # ""
    /\ ~last.res.gameOver
    /\ last.res.points = 3
    /\ \E r \in DOMAIN Rooms :
          /\ Rooms[r].Game.CurrentRound > 1
          /\ Len(Rooms[r].Players) = RoomSize + 1
          /\ objs[Rooms[r].Game.TrumpPlayer].Team # last.res.roundWinner

---------------------------------------------------------------------------
(* Properties of the trick and of the turn *)

\* C28: the current trick of a game holds at most 4 cards and no seat has played
\* more than one of them, also while the handler of one session resolves a
\* complete trick and another session sends play_card.
C28_OneCardPerSeat ==
    \A r \in DOMAIN Rooms :
        LET g == Rooms[r].Game
        IN  /\ Len(g.CurrentTrick) <= RoomSize
            /\ \A i, j \in DOMAIN g.TrickPlayOrder :
                  i # j => objs[g.TrickPlayOrder[i]].Index # objs[g.TrickPlayOrder[j]].Index

\* a fifth card lies in the trick while the session that played the fourth has
\* yet to resolve it: the seat that led the trick has played again
FifthCardInTrick ==
    \E r \in DOMAIN Rooms :
        /\ Len(Rooms[r].Game.CurrentTrick) = RoomSize + 1
        /\ Len(Rooms[r].Players) = RoomSize
        /\ objs[Rooms[r].Game.TrickPlayOrder[1]].Index
              = objs[Rooms[r].Game.TrickPlayOrder[RoomSize + 1]].Index
        /\ \E c \in DOMAIN conns : conns[c].pc = "resolve" /\ conns[c].room = r

\* the handler of session c accepts a card and the round goes on
PlaysOn(c) ==
    /\ PlayCardStep(c)
    /\ last'.res.out = "accepted"
    /\ last'.res.roundWinner = ""
    /\ ~last'.res.panic

\* C29: after an accepted play that does not complete the trick the turn is at
\* the next seat, (index + 1) mod 4; after a play that completes a trick without
\* ending the round the turn is at the seat of the player that won the trick.
C29_TurnFollowsPlay ==
    [][\A c \in DOMAIN conns : PlaysOn(c) =>
          LET g == GameOf(c)
              g1 == Rooms'[conns[c].room].Game
          IN  IF Len(g.CurrentTrick) + 1 # RoomSize
              THEN g1.CurrentPlayerIndex = (g.CurrentPlayerIndex + 1) % RoomSize
              ELSE /\ g1.CurrentPlayerIndex < Len(g1.Players)
                   /\ objs'[g1.Players[g1.CurrentPlayerIndex + 1]].ID = last'.res.winner
                   /\ objs'[g1.Players[g1.CurrentPlayerIndex + 1]].Index
                         = g1.CurrentPlayerIndex]_vars

\* a trick has been won by a card other than the one led, and the player that won
\* it is at the turn with an empty trick before it
TrickWinnerLeads ==
    /\ last.msg.action = "play_card"
    /\ last.res.out = "accepted"
    /\ last.res.roundWinner = ""
    /\ Len(last.res.trick) = RoomSize
    /\ \E i \in 2..RoomSize : /\ last.res.trick[i].Suit = last.res.trick[1].Suit
                               /\ last.res.trick[i].Value > last.res.trick[1].Value
    /\ \E r \in DOMAIN Rooms :
          /\ Rooms[r].Game.CurrentTrick = <<>>
          /\ Rooms[r].Game.CurrentPlayerIndex < Len(Rooms[r].Game.Players)
          /\ objs[Rooms[r].Game.Players[Rooms[r].Game.CurrentPlayerIndex + 1]].ID
                = last.res.winner

\* the turn has passed from seat 3 to seat 0 within a trick
TurnWrapsAround ==
    /\ last.msg.action = "play_card"
    /\ last.res.out = "accepted"
    /\ \E r \in DOMAIN Rooms :
          /\ Len(Rooms[r].Game.CurrentTrick) \in 1..(RoomSize - 1)
          /\ Rooms[r].Game.CurrentPlayerIndex = 0
          /\ objs[Rooms[r].Game.TrickPlayOrder[Len(Rooms[r].Game.TrickPlayOrder)]].Index
                = RoomSize - 1

\* a trick has been resolved at three cards, a player having left the room during
\* it, and the turn is at a seat other than the one of the player that won it
TurnAwayFromWinner ==
    /\ last.msg.action = "play_card"
    /\ last.res.out = "accepted"
    /\ Len(last.res.trick) = RoomSize - 1
    /\ last.res.winner # 0
    /\ \E r \in DOMAIN Rooms :
          /\ Len(Rooms[r].Players) = RoomSize - 1
          /\ Rooms[r].Game.CurrentTrick = <<>>
          /\ Rooms[r].Game.CurrentPlayerIndex < Len(Rooms[r].Game.Players)
          /\ objs[Rooms[r].Game.Players[Rooms[r].Game.CurrentPlayerIndex + 1]].ID
                # last.res.winner

\* the game has a trump player for the round and no card of the round has been
\* accepted yet
BeforeFirstCard(g) ==
    /\ g.TrumpPlayer # Nil
    /\ ~g.IsGameOver
    /\ g.CurrentTrick = <<>>
    /\ g.Scores = NoScores

\* C30: from the start of the bidding of a round until the first card of the
\* round is accepted, the seat at Game.CurrentPlayerIndex is the seat of the trump
\* player, so that the trump player leads the first card of the round.
C30_ChooserLeads ==
    \A r \in DOMAIN Rooms :
        LET g == Rooms[r].Game
        IN  BeforeFirstCard(g) =>
               /\ g.CurrentPlayerIndex < Len(g.Players)
               /\ objs[g.Players[g.CurrentPlayerIndex + 1]].Index = objs[g.TrumpPlayer].Index

\* the first card of the first round has been accepted from seat 0 while the
\* trump player, at another seat, has not yet chosen the suit
LedByOtherSeat ==
    /\ last.msg.action = "play_card"
    /\ last.res.out = "accepted"
    /\ \E r \in DOMAIN Rooms :
          LET g == Rooms[r].Game
          IN  /\ g.TrumpPlayer # Nil
              /\ g.TrumpSuit = ""
              /\ g.CurrentRound = 1
              /\ g.Scores = NoScores
              /\ Len(g.TrickPlayOrder) = 1
              /\ objs[g.TrickPlayOrder[1]].Index = 0
              /\ objs[g.TrumpPlayer].Index # 0

---------------------------------------------------------------------------
(* Properties of a seat that changes hands *)

\* the seat Game.CurrentPlayerIndex points to, -1 when it points to none
SeatAtTurn(g, h) ==
    IF TurnOutOfRange(g) THEN -1 ELSE h[g.Players[g.CurrentPlayerIndex + 1]].Index

\* the seat of the trump player, -1 before the lottery
SeatOfTrumpPlayer(g, h) == IF g.TrumpPlayer = Nil THEN -1 ELSE h[g.TrumpPlayer].Index

\* what a leave and a replacement have to keep of a game
KeptThroughPause(g, h) ==
    [turn |-> g.CurrentPlayerIndex, seat |-> SeatAtTurn(g, h), trick |-> g.CurrentTrick,
     order |-> g.TrickPlayOrder, scores |-> g.Scores, roundScores |-> g.RoundScores,
     trumpSuit |-> g.TrumpSuit, trumpSeat |-> SeatOfTrumpPlayer(g, h)]

\* C31: handlePlayerLeave and handleReplacement leave the turn pointer, the seat
\* it points to, the current trick, the trick play order, the tallies of tricks
\* and of rounds, the trump suit, the seat of the trump player and the hands of
\* the other seats as they are; a replacement that makes the room four active
\* seats again clears the paused flag, so that play resumes at the same seat.
C31_PauseKeepsGame ==
    [][\A c \in DOMAIN conns :
          ((LeaveStep(c) /\ mu = "free") \/ handleReplacement(c)) =>
             LET r == conns[c].room
             IN  /\ KeptThroughPause(Rooms'[r].Game, objs')
                       = KeptThroughPause(Rooms[r].Game, objs)
                 /\ \A o \in DOMAIN objs : objs'[o] = objs[o]
                 /\ (handleReplacement(c) /\ Len(Rooms'[r].Players) = RoomSize)
                       => ~Rooms'[r].Game.IsGameOver]_vars

\* a seat was given up in the middle of a trick with the turn at it, and the new
\* connection that took it over is at the turn of the resumed game
C31_Witness_ResumedAtSameSeat ==
    \E r \in DOMAIN Rooms : \E c \in DOMAIN conns :
       LET g == Rooms[r].Game
       IN  /\ c > RoomSize
           /\ conns[c].pc = "idle"
           /\ conns[c].saved # NoSaved
           /\ Len(Rooms[r].Players) = RoomSize
           /\ ~g.IsGameOver
           /\ g.CurrentTrick # <<>>
           /\ g.CurrentPlayerIndex < Len(g.Players)
           /\ g.Players[g.CurrentPlayerIndex + 1] = conns[c].player
           /\ objs[conns[c].player].Hand = conns[c].saved.Hand

\* player o is an active seat of room r, disconnected, within its grace period
AwaitsReconnection(r, o) ==
    /\ o \in Range(Rooms[r].Players)
    /\ ~objs[o].Connected
    /\ o \in timers

\* C32: a connection that fails without a leave changes the Connected flag of its
\* player and nothing else: no room and no game changes, so the paused flag is
\* not set and no saved-seat entry is made, and the player keeps its id, index,
\* team and hand; while the grace period runs the seat stays in the active list
\* of its room with that id, index and team.
C32_DisconnectOnlyClearsLiveness ==
    /\ [][\A c \in DOMAIN conns : unregisterPlayer(c) =>
             /\ Rooms' = Rooms
             /\ ~objs'[conns[c].player].Connected
             /\ objs' = [objs EXCEPT ![conns[c].player].Connected = FALSE]]_vars
    /\ [][\A r \in DOMAIN Rooms : \A o \in DOMAIN objs :
             AwaitsReconnection(r, o) =>
                \/ removePlayerPermanently(o)
                \/ /\ o \in Range(Rooms'[r].Players)
                   /\ objs'[o].ID = objs[o].ID
                   /\ objs'[o].Index = objs[o].Index
                   /\ objs'[o].Team = objs[o].Team]_vars

\* the connection of a seat that holds cards has failed: the seat is in the
\* active list of a game that is not paused, and the room has no saved seat
C32_Witness_DroppedNotPaused ==
    \E r \in DOMAIN Rooms : \E o \in DOMAIN objs :
       /\ AwaitsReconnection(r, o)
       /\ Len(Rooms[r].Players) = RoomSize
       /\ ~Rooms[r].Game.IsGameOver
       /\ Rooms[r].SavedPlayers = {}
       /\ conns[objs[o].Conn].pc = "closed"

---------------------------------------------------------------------------
(* Properties of the pacing delays of the dealing *)

\* the step of session c calls DealCards, which sleeps after every card of the
\* lottery and after each of the 5 cards of the trump player, while the session
\* holds the registry lock: registerPlayer takes it in write form and releases
\* it on return, and calls initializeGame when the room has become full. The
\* batches of case "choose_trump" and restartGameForNextRound run in
\* processMessage, which holds no lock while they sleep.
DealsUnderLock(c) ==
    /\ registerPlayer(c, 1..NumLotteryShuffles)
    /\ \E r \in DOMAIN Rooms' :
          /\ conns'[c].player \in Range(Rooms'[r].Players)
          /\ Len(Rooms'[r].Players) = RoomSize

\* C33: no session sleeps through a pacing delay of the dealing (the lottery of
\* the Aces, the 5 cards of the trump player, the three batches of the rest)
\* while it holds the registry lock.
C33_NoDelayUnderLock ==
    [][\A c \in DOMAIN conns : ~DealsUnderLock(c)]_vars

\* the fourth player of a room has been seated and the lottery and the 5 cards of
\* the trump player have been dealt within its registration
DealtWithinRegistration ==
    \E r \in DOMAIN Rooms : \E c \in DOMAIN conns :
       /\ conns[c].pc = "idle"
       /\ Len(Rooms[r].Players) = RoomSize
       /\ Rooms[r].Players[RoomSize] = conns[c].player
       /\ Rooms[r].Game.TrumpPlayer # Nil
       /\ Len(objs[Rooms[r].Game.TrumpPlayer].Hand) = 5
       /\ Len(Rooms[r].Game.Deck) = 47

---------------------------------------------------------------------------
(* Properties of the seating of new players *)

\* the rooms with fewer than four active seats, and those of them that hold a
\* saved seat
RoomsWithFreeSeat == {r \in DOMAIN Rooms : Len(Rooms[r].Players) < RoomSize}
RoomsToHeal == {r \in RoomsWithFreeSeat : Rooms[r].SavedPlayers # {}}

\* the room that holds the player of session c after the step
RoomSeatedIn(c) == {r \in DOMAIN Rooms' : conns'[c].player \in Range(Rooms'[r].Players)}

\* C34: the seating of a new player puts it into a room with a saved seat and a
\* free seat if there is one, else into a room with a free seat if there is one,
\* and into a new room only if no room has a free seat; the room has fewer than
\* four active seats before the player is added.
C34_SeatingOrder ==
    [][\A c \in DOMAIN conns : registerPlayer(c, 1..NumLotteryShuffles) =>
          \E r \in RoomSeatedIn(c) :
             /\ IF RoomsToHeal # {} THEN r \in RoomsToHeal
                ELSE IF RoomsWithFreeSeat # {} THEN r \in RoomsWithFreeSeat
                ELSE r \notin DOMAIN Rooms
             /\ r \in DOMAIN Rooms => Len(Rooms[r].Players) < RoomSize]_vars

\* a new player sits alone in a new room while another room, paused and without a
\* saved seat, has a free seat
SeatedApartFromFreeSeat ==
    \E r, q \in DOMAIN Rooms :
       /\ r # q
       /\ Len(Rooms[q].Players) = 1
       /\ Len(Rooms[r].Players) \in 1..(RoomSize - 1)
       /\ Rooms[r].SavedPlayers = {}
       /\ Rooms[r].Game.IsGameOver
       /\ ~MatchEnded(r)

---------------------------------------------------------------------------
(* Properties of a seat whose former occupant is still connected *)

\* C35: when the expiry of a player removes a seat from the active list of a
\* room, the occupant of that seat is disconnected: no connected seat is removed
\* by an expiry, in particular not the replacement that has taken over the id of
\* a player that left and whose connection failed later.
C35_ExpiryRemovesDisconnected ==
    [][\A o \in DOMAIN objs : removePlayerPermanently(o) =>
          \A r \in DOMAIN Rooms : \A p \in Range(Rooms[r].Players) :
             p \notin Range(Rooms'[r].Players) => ~objs[p].Connected]_vars

\* the expiry of a player that had left has removed the seat of the connection
\* that replaced it: that connection is open and its player is in no room
ReplacementExpired ==
    \E c \in DOMAIN conns :
       /\ c > RoomSize
       /\ conns[c].pc = "idle"
       /\ conns[c].saved # NoSaved
       /\ objs[conns[c].player].Connected
       /\ \A r \in DOMAIN Rooms :
             /\ conns[c].player \notin Range(Rooms[r].Players)
             /\ Rooms[r].SavedPlayers = {}
       /\ \E o \in DOMAIN objs :
             /\ o # conns[c].player
             /\ objs[o].ID = objs[conns[c].player].ID
             /\ ~objs[o].Connected
             /\ o \notin timers

\* the player of session c has sent leave_game: its connection is open and it is
\* in the active list of no room
HasLeft(c) ==
    /\ c \in Leavers
    /\ conns[c].player \in DOMAIN objs
    /\ objs[conns[c].player].Connected
    /\ \A r \in DOMAIN Rooms : conns[c].player \notin Range(Rooms[r].Players)

\* C36: after a player has sent leave_game, no message that its connection sends
\* later changes a room, a game or a player, neither while its seat is saved nor
\* after a replacement has taken the seat with the same id.
C36_DepartedChangesNothing ==
    [][\A c \in DOMAIN conns :
          (HasLeft(c) /\ conns[c].pc \in {"checked", "deal2", "deal3"}
                      /\ conns'[c] # conns[c]) =>
             (Rooms' = Rooms /\ objs' = objs)]_vars

\* a card sent by the player that left lies in the trick in the name of the seat
\* it gave up, and the player that replaced it still holds that card
PlayedForTheReplacement ==
    \E c \in DOMAIN conns : \E r \in DOMAIN Rooms :
       /\ HasLeft(c)
       /\ last.msg.action = "play_card"
       /\ last.res.out = "accepted"
       /\ Rooms[r].Game.CurrentTrick # <<>>
       /\ \E p \in Range(Rooms[r].Players) :
             /\ objs[p].ID = objs[conns[c].player].ID
             /\ \E i \in DOMAIN objs[p].Hand :
                   objs[p].Hand[i] = Rooms[r].Game.CurrentTrick[Len(Rooms[r].Game.CurrentTrick)]

\* the player that left has chosen the trump suit of the game after the
\* replacement had taken its seat
TrumpChosenByDeparted ==
    \E c \in DOMAIN conns :
       /\ HasLeft(c)
       /\ last.msg.action = "choose_trump"
       /\ last.res.out = "accepted"
       /\ conns[c].pc = "deal2"

---------------------------------------------------------------------------
(* Properties of the two player lists of a room *)

\* the ids of a list of players, in its order
IDsOf(h, players) == [i \in DOMAIN players |-> h[players[i]].ID]

\* C37: while a game has started and is not paused, Game.Players and the active
\* list room.Players hold the same seats in the same order, so that the seat at
\* Game.CurrentPlayerIndex is an active seat and a trick is complete at four
\* cards; also after the expiry of a disconnected seat.
C37_ListsAgree ==
    \A r \in DOMAIN Rooms :
        (Rooms[r].Game.TrumpPlayer # Nil /\ ~Rooms[r].Game.IsGameOver) =>
            IDsOf(objs, Rooms[r].Game.Players) = IDsOf(objs, Rooms[r].Players)

\* the expiry of a disconnected seat has left a game that is not paused with
\* three active seats and four players in Game.Players, one of them the player
\* that was removed
GameKeepsExpiredSeat ==
    \E r \in DOMAIN Rooms :
       LET g == Rooms[r].Game
       IN  /\ g.TrumpPlayer # Nil
           /\ ~g.IsGameOver
           /\ ~crashed
           /\ Len(Rooms[r].Players) = RoomSize - 1
           /\ Len(g.Players) = RoomSize
           /\ \E o \in Range(g.Players) :
                 /\ o \notin Range(Rooms[r].Players)
                 /\ ~objs[o].Connected
                 /\ o \notin timers
           /\ Rooms[r].SavedPlayers = {}

---------------------------------------------------------------------------
(* Properties of the messages that carry hands *)

\* the room and the players as sendJoinMessage finds them in the registration of
\* session c: the new player, with no card yet, is the last of room.Players, and
\* initializeGame has not run
RoomAtJoin(c) ==
    LET r == CHOOSE r \in RoomSeatedIn(c) : TRUE
        before == IF r \in DOMAIN Rooms THEN Rooms[r] ELSE NewRoom
    IN  [before EXCEPT !.Players = Append(@, conns'[c].player)]
PlayersAtJoin(c) ==
    [o \in DOMAIN objs' |->
        IF o \in DOMAIN objs THEN objs[o] ELSE [objs'[o] EXCEPT !.Hand = <<>>]]

\* C38: the messages that carry cards show a seat only its own: the join_room
\* written to a new player holds no hand of another player, also when the room
\* it joins has a game in progress.
C38_NoForeignHand ==
    [][\A c \in DOMAIN conns : registerPlayer(c, 1..NumLotteryShuffles) =>
          LET msg == joinRoomPayload(RoomAtJoin(c), PlayersAtJoin(c), conns'[c].player)
          IN  \A i \in DOMAIN msg.players :
                 msg.players[i].ID # msg.your_id => msg.players[i].Hand = <<>>]_vars

\* a new player has been seated in a room whose game had started: it is the fifth
\* of Game.Players
JoinedGameInProgress ==
    \E r \in DOMAIN Rooms : \E c \in DOMAIN conns :
       /\ c > RoomSize
       /\ conns[c].pc = "idle"
       /\ conns[c].saved = NoSaved
       /\ conns[c].player \in Range(Rooms[r].Players)
       /\ Len(Rooms[r].Game.Players) = RoomSize + 1
       /\ Rooms[r].Game.Players[RoomSize + 1] = conns[c].player

---------------------------------------------------------------------------
(* Properties of the notifications *)

\* the connections that the handleReplacement of session c writes player_replaced
\* to: broadcastReplacementNotification comes after broadcastTurnUpdate, which
\* panics when Game.CurrentPlayerIndex is no index of Game.Players
PlayerReplacedWritten(c) ==
    IF conns'[c].pc = "panicked" THEN {}
    ELSE broadcastReplacementNotification(Rooms'[conns[c].room], objs')

\* C39: a leave_game is followed by a player_left to every connected seat that
\* remains in the room, a replacement by a player_replaced to every active seat
\* of the room, and a disconnect by a player_disconnected to every other seat of
\* the room.
C39_TransitionsAreAnnounced ==
    [][\A c \in DOMAIN conns :
          /\ (LeaveStep(c) /\ mu = "free") =>
                broadcastLeaveNotification(Rooms'[conns[c].room], objs')
                   = {d \in DOMAIN conns :
                        /\ conns[d].player \in Range(Rooms'[conns[c].room].Players)
                        /\ objs[conns[d].player].Connected
                        /\ objs[conns[d].player].Conn = d}
          /\ handleReplacement(c) =>
                PlayerReplacedWritten(c)
                   = {d \in DOMAIN conns' :
                        /\ conns'[d].player \in Range(Rooms'[conns[c].room].Players)
                        /\ objs'[conns'[d].player].Conn = d}
          /\ unregisterPlayer(c) =>
                \A r \in DOMAIN Rooms : conns[c].player \in Range(Rooms[r].Players) =>
                   broadcastConnectionStatus(objs', conns[c].player)
                      = {{d \in DOMAIN conns :
                            /\ d # c
                            /\ conns[d].player \in Range(Rooms[r].Players)
                            /\ objs[conns[d].player].Conn = d}}]_vars

\* a replacement has brought a room back to four seats and its handler ended in
\* the panic of broadcastTurnUpdate, before any player_replaced was written
ReplacedUnannounced ==
    \E c \in DOMAIN conns :
       /\ c > RoomSize
       /\ conns[c].pc = "panicked"
       /\ conns[c].saved # NoSaved
       /\ conns[c].player \in Range(Rooms[conns[c].room].Players)
       /\ Len(Rooms[conns[c].room].Players) = RoomSize
       /\ TurnOutOfRange(Rooms[conns[c].room].Game)

---------------------------------------------------------------------------
(* Properties of the trump suit *)

\* C40: the trump suit of every game is unset or one of hearts, diamonds, clubs,
\* spades, and a choose_trump whose payload is not one of the four suits changes
\* neither the rooms nor the players.
C40_TrumpSuitIsASuit ==
    /\ [](\A r \in DOMAIN Rooms :
            Rooms[r].Game.TrumpSuit = "" \/ isValidSuit(Rooms[r].Game.TrumpSuit))
    /\ [][\A c \in DOMAIN conns :
            (/\ ChooseTrumpStep(c)
             /\ ~(conns[c].msg.shape = "string" /\ isValidSuit(conns[c].msg.Suit)))
            => UNCHANGED <<Rooms, objs>>]_vars

\* the hands of a round have been dealt under a trump suit that is no suit
DealtUnderNoSuit ==
    \E r \in DOMAIN Rooms :
       /\ Rooms[r].Game.TrumpSuit # ""
       /\ ~isValidSuit(Rooms[r].Game.TrumpSuit)
       /\ Rooms[r].Game.Deck = <<>>
       /\ \A p \in Range(Rooms[r].Players) : objs[p].Hand # <<>>

====
